---- MODULE Spec2Model ----
(***************************************************************************)
(* Camera-Controller: the three control-state parameterisations (orbit,     *)
(* isotropic, grounded), their interpolators (now / end / velocities) and   *)
(* the damping utilities.                                                   *)
(*                                                                          *)
(* Numbers.  The program computes in IEEE doubles; the model computes in    *)
(* exact integers on a grid:                                                *)
(*   - lengths and vector components are fixed-point, 1.0 = ONE units and   *)
(*     the comparison tolerance EPSILON = 1 unit;                           *)
(*   - angles are integers, a quarter turn = HALFPI units, tolerance and    *)
(*     pole margin = 1 unit;                                                *)
(*   - a unit quaternion is an integer 4-vector (x, y, z, w) that stands    *)
(*     for its own direction (q / |q|), kept primitive with |q|^2 in        *)
(*     {1, 2, 4}: these are the 48 quaternions of the rotations that map    *)
(*     the coordinate axes onto each other, q and -q being distinct;        *)
(*   - sine, cosine, their inverses and axis-angle rotations are evaluated  *)
(*     at the nearest quarter turn, where they are exact.                   *)
(* Inputs are drawn from the grid, so every on-grid result is exact.        *)
(***************************************************************************)
EXTENDS Integers, Sequences, FiniteSets, TLC

\* mathUtils.ts: export const EPSILON = 1e-5 (one unit of the model's grid)
EPSILON == 1
\* fixed-point image of the number 1.0
ONE == 4
\* angle units in a quarter turn (Math.PI / 2)
HALFPI == 4
\* the image of JavaScript's Infinity (default maxDistance, maxSpeed)
Infinity == 100000

PI == 2 * HALFPI
TWOPI == 4 * HALFPI

---------------------------------------------------------------------------
(* Integer helpers (Math.abs, Math.sign, Math.min/max, three's clamp,       *)
(* Math.trunc of a quotient, rounding, euclideanModulo, Math.sqrt).         *)

Abs(a) == IF a < 0 THEN -a ELSE a

Sign(a) == IF a > 0 THEN 1 ELSE IF a < 0 THEN -1 ELSE 0

Min(a, b) == IF a <= b THEN a ELSE b

Max(a, b) == IF a >= b THEN a ELSE b

clamp(value, lo, hi) == Max(lo, Min(hi, value))

TruncDiv(a, b) == Sign(a) * (Abs(a) \div b)

RoundDiv(a, b) == Sign(a) * ((2 * Abs(a) + b) \div (2 * b))

euclideanModulo(n, m) == ((n % m) + m) % m

\* Math.sqrt, rounded to the nearest integer (hi: any upper bound of the root)
ISqrt(n, hi) == CHOOSE r \in 0..hi : (r = 0 \/ (2 * r - 1) * (2 * r - 1) <= 4 * n) /\ 4 * n < (2 * r + 1) * (2 * r + 1)

\* Binding names to values: in Only({e : x \in {v}}) the value v is computed
\* once and e is evaluated with x standing for it.  An operator whose
\* parameter is written p_ binds p to the value of its argument this way.
Only(S) == CHOOSE x \in S : TRUE

---------------------------------------------------------------------------
(* Approximate predicates on scalars.                                       *)

approxZeroE(v, error) == Abs(v) <= error

approxZero(v) == approxZeroE(v, EPSILON)

approxEqual(a, b) == approxZero(a - b)

---------------------------------------------------------------------------
(* Vector3.                                                                 *)

V3(x, y, z) == [x |-> x, y |-> y, z |-> z]

Zero3 == V3(0, 0, 0)

AXIS == [X |-> V3(ONE, 0, 0), Y |-> V3(0, ONE, 0), Z |-> V3(0, 0, ONE)]

VAdd(a_, b_) == Only({V3(a.x + b.x, a.y + b.y, a.z + b.z) : a \in {a_}, b \in {b_}})

VSub(a_, b_) == Only({V3(a.x - b.x, a.y - b.y, a.z - b.z) : a \in {a_}, b \in {b_}})

VNeg(a_) == Only({V3(-a.x, -a.y, -a.z) : a \in {a_}})

VScale(a_, k_) == Only({V3(a.x * k, a.y * k, a.z * k) : a \in {a_}, k \in {k_}})

\* multiplyScalar by a fixed-point factor f (f / ONE)
VScaleFix(a_, f_) == Only({V3(RoundDiv(a.x * f, ONE), RoundDiv(a.y * f, ONE), RoundDiv(a.z * f, ONE)) : a \in {a_}, f \in {f_}})

Dot(a_, b_) == Only({a.x * b.x + a.y * b.y + a.z * b.z : a \in {a_}, b \in {b_}})

\* a.dot(b) of two fixed-point vectors, as a fixed-point number
DotFix(a, b) == RoundDiv(Dot(a, b), ONE)

\* a.cross(b) of two fixed-point vectors, as a fixed-point vector
CrossFix(a_, b_) == Only({V3(RoundDiv(a.y * b.z - a.z * b.y, ONE), RoundDiv(a.z * b.x - a.x * b.z, ONE), RoundDiv(a.x * b.y - a.y * b.x, ONE)) : a \in {a_}, b \in {b_}})

Length(a_) == Only({ISqrt(Dot(a, a), Abs(a.x) + Abs(a.y) + Abs(a.z)) : a \in {a_}})

\* Vector3.normalize: divideScalar(length || 1)
Normalize(a_) ==
    Only({Only({IF l = 0 THEN a ELSE V3(RoundDiv(a.x * ONE, l), RoundDiv(a.y * ONE, l), RoundDiv(a.z * ONE, l))
    : l \in {Length(a)}})
    : a \in {a_}})

\* Vector3.setLength: normalize().multiplyScalar(l)
SetLength(a_, len_) ==
    Only({Only({IF l = 0 THEN a ELSE V3(RoundDiv(a.x * len, l), RoundDiv(a.y * len, l), RoundDiv(a.z * len, l))
    : l \in {Length(a)}})
    : a \in {a_}, len \in {len_}})

DistanceTo(a, b) == Length(VSub(a, b))

\* Vector3.angleTo: PI / 2 when one of the vectors is zero
AngleTo(a_, b_) ==
    Only({Only({IF denominator = 0 THEN HALFPI ELSE IF 2 * Dot(a, b) * Dot(a, b) <= denominator * denominator THEN HALFPI ELSE IF Dot(a, b) > 0 THEN 0 ELSE PI
    : denominator \in {Length(a) * Length(b)}})
    : a \in {a_}, b \in {b_}})

approxZeroVec3E(v_, error_) == Only({approxZeroE(v.x, error) /\ approxZeroE(v.y, error) /\ approxZeroE(v.z, error) : v \in {v_}, error \in {error_}})

approxZeroVec3(v) == approxZeroVec3E(v, EPSILON)

approxEqualVec3(a_, b_) == Only({approxEqual(a.x, b.x) /\ approxEqual(a.y, b.y) /\ approxEqual(a.z, b.z) : a \in {a_}, b \in {b_}})

approxCollinear(a, b) == approxEqual(Abs(DotFix(a, b)), ONE)

approxParallel(a, b) == approxEqual(DotFix(a, b), ONE)

approxAntiparallel(a, b) == approxEqual(DotFix(a, b), -ONE)

\* the coordinate axis (as a fixed-point unit vector) nearest to a direction
SnapAxis(v_) ==
    Only({IF v = Zero3 THEN Zero3
    ELSE IF Abs(v.x) >= Abs(v.y) /\ Abs(v.x) >= Abs(v.z) THEN V3(Sign(v.x) * ONE, 0, 0)
    ELSE IF Abs(v.y) >= Abs(v.z) THEN V3(0, Sign(v.y) * ONE, 0)
    ELSE V3(0, 0, Sign(v.z) * ONE)
    : v \in {v_}})

\* the same axis with components in {-1, 0, 1}
Direction(v) == Only({V3(a.x \div ONE, a.y \div ONE, a.z \div ONE)
    : a \in {SnapAxis(v)}})

Cross(a_, b_) == Only({V3(a.y * b.z - a.z * b.y, a.z * b.x - a.x * b.z, a.x * b.y - a.y * b.x) : a \in {a_}, b \in {b_}})

---------------------------------------------------------------------------
(* Quaternion (three.js), on the 48-element grid.                           *)

Q4(x, y, z, w) == [x |-> x, y |-> y, z |-> z, w |-> w]

QIdentity == Q4(0, 0, 0, 1)

QNorm2(q_) == Only({q.x * q.x + q.y * q.y + q.z * q.z + q.w * q.w : q \in {q_}})

QAllEven(q_) == Only({q.x % 2 = 0 /\ q.y % 2 = 0 /\ q.z % 2 = 0 /\ q.w % 2 = 0 : q \in {q_}})

RECURSIVE QCanon(_)
\* the primitive integer vector with the direction of q
QCanon(q_) == Only({IF QNorm2(q) # 0 /\ QAllEven(q) THEN QCanon(Q4(q.x \div 2, q.y \div 2, q.z \div 2, q.w \div 2)) ELSE q : q \in {q_}})

OnGrid(q_) == Only({QNorm2(q) \in {1, 2, 4} /\ ~QAllEven(q) : q \in {q_}})

\* Quaternion.normalize: a zero quaternion becomes the identity
QNormalize(q_) == Only({IF QNorm2(q) = 0 THEN QIdentity ELSE QCanon(q) : q \in {q_}})

QNeg(q_) == Only({Q4(-q.x, -q.y, -q.z, -q.w) : q \in {q_}})

\* Quaternion.invert (conjugate of a unit quaternion)
QInvert(q_) == Only({Q4(-q.x, -q.y, -q.z, q.w) : q \in {q_}})

QDot(a_, b_) == Only({a.x * b.x + a.y * b.y + a.z * b.z + a.w * b.w : a \in {a_}, b \in {b_}})

\* Quaternion.multiplyQuaternions(a, b)
QMul(a_, b_) ==
    Only({QCanon(Q4(a.x * b.w + a.w * b.x + a.y * b.z - a.z * b.y,
              a.y * b.w + a.w * b.y + a.z * b.x - a.x * b.z,
              a.z * b.w + a.w * b.z + a.x * b.y - a.y * b.x,
              a.w * b.w - a.x * b.x - a.y * b.y - a.z * b.z))
    : a \in {a_}, b \in {b_}})

\* this.multiply(q) and this.premultiply(q)
Multiply(this, q) == QMul(this, q)

Premultiply(this, q) == QMul(q, this)

\* Vector3.applyQuaternion
ApplyQuat(v_, q_) ==
    Only({Only({V3((ix * q.w - iw * q.x - iy * q.z + iz * q.y) \div n, (iy * q.w - iw * q.y - iz * q.x + ix * q.z) \div n, (iz * q.w - iw * q.z - ix * q.y + iy * q.x) \div n)
    : n \in {QNorm2(q)},
      ix \in {q.w * v.x + q.y * v.z - q.z * v.y},
      iy \in {q.w * v.y + q.z * v.x - q.x * v.z},
      iz \in {q.w * v.z + q.x * v.y - q.y * v.x},
      iw \in {-q.x * v.x - q.y * v.y - q.z * v.z}})
    : v \in {v_}, q \in {q_}})

\* the number of eighth turns of the half angle of a rotation by `angle`
HalfOctant(angle) == ((angle + HALFPI \div 2) \div HALFPI) % 8

SinHalf(k) == IF k \in {1, 2, 3} THEN 1 ELSE IF k \in {5, 6, 7} THEN -1 ELSE 0

CosHalf(k) == IF k \in {7, 0, 1} THEN 1 ELSE IF k \in {3, 4, 5} THEN -1 ELSE 0

\* Quaternion.setFromAxisAngle(axis, angle): (axis * sin(angle/2), cos(angle/2))
SetFromAxisAngle(axis, angle) ==
    Only({Only({Q4((a.x \div ONE) * s, (a.y \div ONE) * s, (a.z \div ONE) * s, CosHalf(k))
    : s \in {SinHalf(k)}})
    : k \in {HalfOctant(angle)},
      a \in {SnapAxis(axis)}})

\* Quaternion.setFromUnitVectors(vFrom, vTo)
SetFromUnitVectors(vFrom, vTo) ==
    Only({Only({Only({IF r < 1 THEN (IF Abs(fx) > Abs(fz) THEN Q4(-fy, fx, 0, 0) ELSE Q4(0, -fz, fy, 0)) ELSE QNormalize(Q4(fy * tz - fz * ty, fz * tx - fx * tz, fx * ty - fy * tx, r))
    : r \in {fx * tx + fy * ty + fz * tz + 1}})
    : fx \in {f.x \div ONE},
      fy \in {f.y \div ONE},
      fz \in {f.z \div ONE},
      tx \in {t.x \div ONE},
      ty \in {t.y \div ONE},
      tz \in {t.z \div ONE}})
    : f \in {SnapAxis(vFrom)},
      t \in {SnapAxis(vTo)}})

\* Quaternion.setFromRotationMatrix of the matrix with columns xAxis, yAxis, zAxis
\* (Matrix4.makeBasis), the axes given with components in {-1, 0, 1}
SetFromBasis(xAxis_, yAxis_, zAxis_) ==
    Only({Only({Only({QNormalize( IF trace > 0 THEN Q4(m32 - m23, m13 - m31, m21 - m12, trace + 1) ELSE IF m11 > m22 /\ m11 > m33 THEN Q4(1 + m11 - m22 - m33, m12 + m21, m13 + m31, m32 - m23) ELSE IF m22 > m33 THEN Q4(m12 + m21, 1 + m22 - m11 - m33, m23 + m32, m13 - m31) ELSE Q4(m13 + m31, m23 + m32, 1 + m33 - m11 - m22, m21 - m12))
    : trace \in {m11 + m22 + m33}})
    : m11 \in {xAxis.x},
      m21 \in {xAxis.y},
      m31 \in {xAxis.z},
      m12 \in {yAxis.x},
      m22 \in {yAxis.y},
      m32 \in {yAxis.z},
      m13 \in {zAxis.x},
      m23 \in {zAxis.y},
      m33 \in {zAxis.z}})
    : xAxis \in {xAxis_}, yAxis \in {yAxis_}, zAxis \in {zAxis_}})

\* Math.atan2(y, x), Math.asin, Math.acos at the nearest quarter turn
Atan2(y, x) ==
    IF x = 0 /\ y = 0 THEN 0
    ELSE IF Abs(x) >= Abs(y) THEN (IF x > 0 THEN 0 ELSE PI)
    ELSE (IF y > 0 THEN HALFPI ELSE -HALFPI)

\* Math.acos(c / r) for -r <= c <= r, r > 0
Acos(c, r) == IF 2 * c * c <= r * r THEN HALFPI ELSE IF c > 0 THEN 0 ELSE PI

\* sine and cosine of an angle, as -1, 0 or 1
Quadrant(angle) == ((angle + HALFPI \div 2) \div HALFPI) % 4

Sin(angle) == Only({IF k = 1 THEN 1 ELSE IF k = 3 THEN -1 ELSE 0
    : k \in {Quadrant(angle)}})

Cos(angle) == LET k == Quadrant(angle) IN IF k = 0 THEN 1 ELSE IF k = 2 THEN -1 ELSE 0

\* Euler.setFromQuaternion (order XYZ), each angle then wrapped by
\* euclideanModulo(angle, 2 * PI), and Quaternion.setFromEuler
EulerWrap(q_) ==
    Only({Only({Only({Only({Only({QMul(QMul(qx, qy), qz)
    : qx \in {SetFromAxisAngle(AXIS.X, euclideanModulo(x, TWOPI))},
      qy \in {SetFromAxisAngle(AXIS.Y, euclideanModulo(y, TWOPI))},
      qz \in {SetFromAxisAngle(AXIS.Z, euclideanModulo(z, TWOPI))}})
    : y \in {m13 * HALFPI},
      x \in {IF Abs(m13) < 1 THEN Atan2(-m23, m33) ELSE Atan2(m32, m22)},
      z \in {IF Abs(m13) < 1 THEN Atan2(-m12, m11) ELSE 0}})
    : m11 \in {ex.x},
      m12 \in {ey.x},
      m13 \in {ez.x},
      m22 \in {ey.y},
      m23 \in {ez.y},
      m32 \in {ey.z},
      m33 \in {ez.z}})
    : ex \in {ApplyQuat(V3(1, 0, 0), q)},
      ey \in {ApplyQuat(V3(0, 1, 0), q)},
      ez \in {ApplyQuat(V3(0, 0, 1), q)}})
    : q \in {q_}})

\* Quaternion.slerp(qb, t) with t = tn / td in [0, 1]: the shorter arc, the
\* target negated when the dot product is negative.  Off the grid the
\* interpolated quaternion is rounded to the grid in the direction of the
\* target; the midpoint (t = 1/2) is exact when it lies on the grid.
Slerp(qa_, qb_, tn_, td_) ==
    Only({IF tn = 0 THEN qa
    ELSE IF tn >= td THEN qb
    ELSE Only({Only({IF qa = to THEN qa ELSE IF 2 * tn = td /\ QNorm2(qa) = QNorm2(to) /\ OnGrid(sum) THEN sum ELSE to
    : sum \in {QCanon(Q4(qa.x + to.x, qa.y + to.y, qa.z + to.z, qa.w + to.w))}})
    : to \in {IF QDot(qa, qb) < 0 THEN QNeg(qb) ELSE qb}})
    : qa \in {qa_}, qb \in {qb_}, tn \in {tn_}, td \in {td_}})

---------------------------------------------------------------------------
(* mathUtils.ts: smoothDamp, smoothDampVec3, smoothDampQuat.                *)
(* Time is counted in ticks; a velocity is a whole number of units per      *)
(* tick.  exp = 1 / (1 + x + 0.48 x^2 + 0.235 x^3) with x = 2 dt / st is    *)
(* the exact rational ExpNum / ExpDen; the damped value and the velocity    *)
(* are truncated to the grid.                                               *)

ExpNum(st, dt) == 1000 * st * st * st

ExpDen(st, dt) ==
    Only({1000 * st * st * st + 1000 * xn * st * st + 480 * xn * xn * st + 235 * xn * xn * xn
    : xn \in {2 * dt}})

\* smoothDamp: the pair <<output, new velocity>>
smoothDamp(current_, target_, velocity_, st_, maxSpeed, dt_) ==
    Only({Only({Only({Only({Only({IF (originalTo - current > 0) = (output > originalTo) THEN <<originalTo, 0>> ELSE <<output, newVel>>
    : newVel \in {TruncDiv((velocity * st * st - 2 * tempN) * ExpNum(st, dt), st * st * ExpDen(st, dt))},
      output \in {target2 + TruncDiv((change * st + tempN) * ExpNum(st, dt), st * ExpDen(st, dt))}})
    : target2 \in {current - change},
      tempN \in {(velocity * st + 2 * change) * dt}})
    : change \in {clamp(current - target, -maxChange, maxChange)}})
    : originalTo \in {target},
      maxChange \in {maxSpeed * st}})
    : current \in {current_}, target \in {target_}, velocity \in {velocity_}, st \in {st_}, dt \in {dt_}})

\* smoothDampVec3 with maxSpeed = Infinity (the only value the callers pass),
\* so the change is never shortened: the pair <<out, new velocity>>
smoothDampVec3(current_, target_, velocity_, st_, dt_) ==
    Only({Only({Only({LET num(c, t) == TruncDiv((c * st + t) * ExpNum(st, dt), st * ExpDen(st, dt))
        vnum(v, t) == TruncDiv((v * st * st - 2 * t) * ExpNum(st, dt), st * st * ExpDen(st, dt))
    IN Only({IF Dot(VSub(target, current), VSub(out, target)) > 0 THEN <<target, Zero3>> ELSE <<out, newVel>>
    : out \in {V3(target.x + num(change.x, tempN.x), target.y + num(change.y, tempN.y), target.z + num(change.z, tempN.z))},
      newVel \in {V3(vnum(velocity.x, tempN.x), vnum(velocity.y, tempN.y), vnum(velocity.z, tempN.z))}})
    : tempN \in {VScale(VAdd(VScale(velocity, st), VScale(change, 2)), dt)}})
    : change \in {VSub(current, target)}})
    : current \in {current_}, target \in {target_}, velocity \in {velocity_}, st \in {st_}, dt \in {dt_}})

\* smoothDampQuat: out = current.slerp(target, min(1, dt / st)).  The velocity
\* quaternion is slerped towards the target too; it is never read, and the
\* model keeps only whether it is at rest ("zero") or not ("moving").
smoothDampQuat(current, target, st_, dt) == Only({<<Slerp(current, target, Min(st, dt), st), "moving">> : st \in {st_}})

---------------------------------------------------------------------------
(* OrbitState (OrbitInterpolator.ts): orbit center, up vector and the       *)
(* spherical (distance = radius, theta, phi).  fromUpToY and fromYToUp are  *)
(* functions of the up vector.                                              *)

\* Spherical.makeSafe
makeSafe(phi) == Max(EPSILON, Min(PI - EPSILON, phi))

\* new OrbitState(): fresh Spherical (radius 1, phi 0, theta 0), up = AXIS.Y
OrbitState == [orbitCenter |-> Zero3, distance |-> ONE, theta |-> 0, phi |-> 0, up |-> AXIS.Y]

Orbit_fromUpToY(s) == SetFromUnitVectors(s.up, AXIS.Y)

Orbit_fromYToUp(s) == QInvert(Orbit_fromUpToY(s))

\* get offset: Vector3.setFromSpherical, then into up space
Orbit_offset(s_) ==
    Only({Only({ApplyQuat(V3(sinPhiRadius * Sin(s.theta), Cos(s.phi) * s.distance, sinPhiRadius * Cos(s.theta)), Orbit_fromYToUp(s))
    : sinPhiRadius \in {Sin(s.phi) * s.distance}})
    : s \in {s_}})

\* ControlState.position
Orbit_position(s_) == Only({VAdd(s.orbitCenter, Orbit_offset(s)) : s \in {s_}})

Orbit_forward(s) == VNeg(Normalize(Orbit_offset(s)))

Orbit_right(s_) == Only({CrossFix(Orbit_forward(s), s.up) : s \in {s_}})

Orbit_tangent(s_) == Only({CrossFix(Orbit_right(s), Orbit_forward(s)) : s \in {s_}})

\* get orientation: Matrix4.lookAt(position, orbitCenter, up), whose axes are
\* z = offset direction, x = up cross z (normalised; in y-is-up space this is
\* (cos theta, 0, -sin theta) for every phi strictly between the poles),
\* y = z cross x; then Quaternion.setFromRotationMatrix
Orbit_orientation(s_) ==
    Only({Only({Only({SetFromBasis(xAxis, yAxis, zAxis)
    : yAxis \in {Cross(zAxis, xAxis)}})
    : zAxis \in {Direction(Orbit_offset(s))},
      xAxis \in {ApplyQuat(V3(Cos(s.theta), 0, -Sin(s.theta)), Orbit_fromYToUp(s))}})
    : s \in {s_}})

\* set distance
Orbit_setDistance(s, v) == [s EXCEPT !.distance = Max(EPSILON, v)]

\* set phi
Orbit_setPhi(s, v) == [s EXCEPT !.phi = makeSafe(v)]

\* set theta
Orbit_setTheta(s, v) == [s EXCEPT !.theta = v]

\* set offset
Orbit_setOffset_noShorterWay(s_, to_) ==
    Only({IF approxEqualVec3(Orbit_offset(s), to) THEN s
    ELSE IF approxZeroVec3(to) THEN Orbit_setDistance(s, EPSILON)
    ELSE Only({Only({[s EXCEPT !.distance = radius, !.theta = theta0, !.phi = makeSafe(Acos(clamp(t.y, -radius, radius), radius))]
    : radius \in {Length(t)}, theta0 \in {Atan2(t.x, t.z) + turns * TWOPI}})
    : turns \in {TruncDiv(s.theta, TWOPI)}, t \in {ApplyQuat(to, Orbit_fromUpToY(s))}})
    : s \in {s_}, to \in {to_}})

Orbit_setOffset(s_, to_) ==
    Only({IF approxEqualVec3(Orbit_offset(s), to) THEN s
    ELSE IF approxZeroVec3(to) THEN Orbit_setDistance(s, EPSILON)
    ELSE Only({Only({Only({Only({[s EXCEPT !.distance = radius, !.theta = theta1, !.phi = phi0]
    : phi0 \in {makeSafe(Acos(clamp(t.y, -radius, radius), radius))},
      theta1 \in {IF oldTheta - theta0 > PI THEN theta0 + TWOPI ELSE IF theta0 - oldTheta > PI THEN theta0 - TWOPI ELSE theta0}})
    : radius \in {Length(t)},
      theta0 \in {Atan2(t.x, t.z) + turns * TWOPI}})
    : turns \in {TruncDiv(oldTheta, TWOPI)},
      t \in {ApplyQuat(to, Orbit_fromUpToY(s))}})
    : oldTheta \in {s.theta}})
    : s \in {s_}, to \in {to_}})

\* set up: the offset read before the up vector changes is the state's scratch
\* vector, which the getter inside `set offset` overwrites with the offset
\* under the new up vector before comparing it with itself
Orbit_setUp(s_, v_) ==
    Only({IF approxEqualVec3(s.up, v) THEN s
    ELSE Only({Orbit_setOffset(s1, Orbit_offset(s1))
    : s1 \in {[s EXCEPT !.up = v]}})
    : s \in {s_}, v \in {v_}})

Orbit_normalize(s_) == Only({[s EXCEPT !.theta = euclideanModulo(s.theta, TWOPI), !.phi = makeSafe(s.phi)] : s \in {s_}})

Orbit_setPosition(s_, to) == Only({Orbit_setOffset(s, VSub(to, s.orbitCenter)) : s \in {s_}})

Orbit_setOrbitCenter(s_, to_) ==
    Only({IF approxEqualVec3(s.orbitCenter, to) THEN s
    ELSE [Orbit_setOffset(s, VSub(Orbit_position(s), to)) EXCEPT !.orbitCenter = to]
    : s \in {s_}, to \in {to_}})

\* variant of lookAt as in the earlier OrbitState (OrbitAnimator.ts): the
\* target itself becomes the orbit center
Orbit_lookAt_toTarget(s, target) == Orbit_setOrbitCenter(s, target)

Orbit_lookAt(s_, target) ==
    Only({Only({Only({Orbit_setOrbitCenter(s, VSub(position, offset))
    : offset \in {SetLength(VSub(position, target), s.distance)}})
    : position \in {Orbit_position(s)}})
    : s \in {s_}})

\* ControlState.saveState
Orbit_saveState(s_) ==
    Only({[orbitCenter |-> s.orbitCenter, offset |-> Orbit_offset(s), forward |-> Normalize(Orbit_forward(s)), up |-> Normalize(s.up)]
    : s \in {s_}})

Orbit_loadState(s, state_) ==
    Only({Only({Only({Only({Orbit_normalize(s3)
    : s3 \in {Orbit_setOffset(s2, IF approxZeroVec3(state.offset) THEN SetLength(VNeg(state.forward), EPSILON) ELSE state.offset)}})
    : s2 \in {Orbit_setUp(s1, state.up)}})
    : s1 \in {[s EXCEPT !.orbitCenter = state.orbitCenter]}})
    : state \in {state_}})

---------------------------------------------------------------------------
(* IsotropicState (GroundedInterpolator.ts, second half): orbit center,     *)
(* quaternion and distance.                                                 *)

\* new IsotropicState()
IsotropicState == [orbitCenter |-> Zero3, quaternion |-> QIdentity, distance |-> ONE]

Iso_right(s) == ApplyQuat(AXIS.X, s.quaternion)

Iso_up(s) == ApplyQuat(AXIS.Y, s.quaternion)

Iso_forward(s) == ApplyQuat(VNeg(AXIS.Z), s.quaternion)

\* get offset: forward * -distance
Iso_offset(s_) == Only({VScaleFix(Iso_forward(s), -s.distance) : s \in {s_}})

Iso_position(s_) == Only({VAdd(s.orbitCenter, Iso_offset(s)) : s \in {s_}})

Iso_orientation(s) == QNormalize(s.quaternion)

\* faulty variant of `set distance`: no lower limit
Iso_setDistance_unlimited(s, v) == [s EXCEPT !.distance = v]

Iso_setDistance(s, v) == [s EXCEPT !.distance = Max(EPSILON, v)]

\* normalize: quaternion -> Euler angles, each wrapped to [0, 2 PI[ -> quaternion
Iso_normalize(s_) == Only({[s EXCEPT !.quaternion = EulerWrap(QNormalize(s.quaternion))] : s \in {s_}})

Iso_setPosition(s_, to_) ==
    Only({IF approxEqualVec3(to, Iso_position(s)) THEN s
    ELSE Only({Only({Only({IF approxZero(s1.distance) THEN s1 ELSE [s1 EXCEPT !.quaternion = Premultiply(@, rot)]
    : rot \in {SetFromUnitVectors(oldForward, newForward)}})
    : oldForward \in {Iso_forward(s1)}})
    : s1 \in {Iso_setDistance(s, DistanceTo(s.orbitCenter, to))},
      newForward \in {Normalize(VSub(to, s.orbitCenter))}})
    : s \in {s_}, to \in {to_}})

Iso_setOrbitCenter(s_, to_) ==
    Only({IF approxEqualVec3(to, s.orbitCenter) THEN s
    ELSE Only({Only({Only({IF approxZero(s1.distance) THEN s1 ELSE IF approxParallel(oldForward, newForward) THEN s1 ELSE [s1 EXCEPT !.quaternion = Premultiply(@, rotation)]
    : rotation \in {IF approxAntiparallel(oldForward, newForward) THEN SetFromAxisAngle(Iso_up(s1), PI) ELSE SetFromUnitVectors(oldForward, newForward)}})
    : s1 \in {Iso_setDistance([s EXCEPT !.orbitCenter = to], DistanceTo(position, to))},
      newForward \in {Normalize(VSub(to, position))}})
    : oldForward \in {Iso_forward(s)},
      position \in {Iso_position(s)}})
    : s \in {s_}, to \in {to_}})

Iso_lookAt(s_, target) ==
    Only({Only({Only({Iso_setOrbitCenter(s, VSub(position, offset))
    : offset \in {SetLength(VSub(position, target), s.distance)}})
    : position \in {Iso_position(s)}})
    : s \in {s_}})

Iso_saveState(s_) ==
    Only({[orbitCenter |-> s.orbitCenter, offset |-> Iso_offset(s), forward |-> Normalize(Iso_forward(s)), up |-> Normalize(Iso_up(s))]
    : s \in {s_}})

\* loadState: basis (right, up, -forward) from the saved offset / forward and
\* up; no search for the nearest representable state
Iso_loadState_forward(state_) ==
    Only({IF approxZeroVec3(state.offset) THEN Direction(state.forward) ELSE Direction(VNeg(state.offset))
    : state \in {state_}})

\* const right = forward.clone().cross(state.up)
Iso_loadState_right(state_) ==
    Only({Cross(Iso_loadState_forward(state), Direction(state.up)) : state \in {state_}})

Iso_loadState(s, state_) ==
    Only({Only({Only({Only({[orbitCenter |-> state.orbitCenter, distance |-> Max(EPSILON, Length(state.offset)), quaternion |-> SetFromBasis(right, up, VNeg(forward))]
    : up \in {Cross(right, forward)}})
    : right \in {Iso_loadState_right(state)}})
    : forward \in {Iso_loadState_forward(state)}})
    : state \in {state_}})

---------------------------------------------------------------------------
(* GroundedState (GroundedInterpolator.ts, first half): orbit center,       *)
(* offset quaternion, look up angle, distance and pending translation.      *)

\* new GroundedState()
GroundedState == [orbitCenter |-> Zero3, offsetQuat |-> QIdentity, lookUpAngle |-> EPSILON, distance |-> ONE, translation |-> Zero3]

Grounded_offset(s_) == Only({ApplyQuat(V3(0, 0, s.distance), s.offsetQuat) : s \in {s_}})

Grounded_position(s_) == Only({VAdd(s.orbitCenter, Grounded_offset(s)) : s \in {s_}})

\* get orientation: rotation about X by the look up angle, premultiplied by offsetQuat
Grounded_orientation(s_) == Only({Premultiply(SetFromAxisAngle(AXIS.X, s.lookUpAngle), s.offsetQuat) : s \in {s_}})

Grounded_right(s) == ApplyQuat(AXIS.X, s.offsetQuat)

Grounded_up(s) == ApplyQuat(AXIS.Z, s.offsetQuat)

Grounded_forward(s) == ApplyQuat(VNeg(AXIS.Z), Grounded_orientation(s))

Grounded_setDistance(s, v) == [s EXCEPT !.distance = Max(EPSILON, v)]

\* faulty variant of `set lookUpAngle`: no clamp
Grounded_setLookUpAngle_unclamped(s, v) == [s EXCEPT !.lookUpAngle = v]

Grounded_setLookUpAngle(s, v) == [s EXCEPT !.lookUpAngle = clamp(v, EPSILON, PI - EPSILON)]

\* faulty variant of applyTranslation: folds delta in but leaves the pending
\* translation as it was
Grounded_applyTranslation_keepsPending(s_, delta_, own) ==
    Only({Only({Only({Only({Only({Only({[s2 EXCEPT !.offsetQuat = Premultiply(@, rotation)]
    : rotation \in {SetFromUnitVectors(Grounded_up(s2), newUp)}})
    : s2 \in {Grounded_setLookUpAngle(s1, s1.lookUpAngle + angle)}})
    : angle \in {Sign(Dot(Grounded_forward(s), delta)) * AngleTo(oldUp, newUp)},
      s1 \in {Grounded_setDistance(s, Length(newOffset))}})
    : newUp \in {Normalize(newOffset)}})
    : newOffset \in {VAdd(Grounded_offset(s), delta)},
      oldUp \in {Grounded_up(s)}})
    : s \in {s_}, delta \in {delta_}})

\* applyTranslation(delta); `own` tells that delta is the state's own
\* translation vector (the default argument, or the vector the damper wrote
\* into), which translation.sub(delta) then empties
Grounded_applyTranslation(s_, delta_, own) ==
    Only({Only({Only({Only({Only({Only({[s2 EXCEPT !.offsetQuat = Premultiply(@, rotation), !.translation = IF own THEN Zero3 ELSE VSub(@, delta)]
    : rotation \in {SetFromUnitVectors(Grounded_up(s2), newUp)}})
    : s2 \in {Grounded_setLookUpAngle(s1, s1.lookUpAngle + angle)}})
    : angle \in {Sign(Dot(Grounded_forward(s), delta)) * AngleTo(oldUp, newUp)},
      s1 \in {Grounded_setDistance(s, Length(newOffset))}})
    : newUp \in {Normalize(newOffset)}})
    : newOffset \in {VAdd(Grounded_offset(s), delta)},
      oldUp \in {Grounded_up(s)}})
    : s \in {s_}, delta \in {delta_}})

\* faulty variant of normalize: drops the pending translation
Grounded_normalize_dropsTranslation(s_) ==
    Only({[s EXCEPT !.translation = Zero3, !.offsetQuat = EulerWrap(QNormalize(s.offsetQuat))] : s \in {s_}})

Grounded_normalize(s_) ==
    Only({Only({[s1 EXCEPT !.translation = Zero3, !.offsetQuat = EulerWrap(QNormalize(s1.offsetQuat))]
    : s1 \in {Grounded_applyTranslation(s, s.translation, TRUE)}})
    : s \in {s_}})

Grounded_lookAt_turnsOffset(s_, target_) ==
    Only({IF approxEqualVec3(Grounded_position(s), target) THEN s
    ELSE Only({IF approxParallel(Grounded_forward(s), newForward) THEN s
         ELSE Grounded_setLookUpAngle([s EXCEPT !.offsetQuat = Premultiply(@, SetFromUnitVectors(Grounded_forward(s), newForward))], PI - AngleTo(Grounded_up(s), newForward))
    : newForward \in {Normalize(VSub(target, Grounded_position(s)))}})
    : s \in {s_}, target \in {target_}})

Grounded_lookAt(s_, target_) ==
    Only({IF approxEqualVec3(Grounded_position(s), target) THEN s
    ELSE Only({Only({Only({IF approxParallel(Grounded_forward(s), newForward) THEN s ELSE Grounded_setLookUpAngle(s1, PI - AngleTo(up, newForward))
    : s1 \in {IF approxCollinear(newForward, up) THEN s ELSE IF approxAntiparallel(oldRight, newRight) THEN [s EXCEPT !.offsetQuat = Multiply(@, SetFromAxisAngle(AXIS.Z, PI))] ELSE IF ~approxParallel(oldRight, newRight) THEN [s EXCEPT !.offsetQuat = Premultiply(@, SetFromUnitVectors(oldRight, newRight))] ELSE s}})
    : newRight \in {CrossFix(newForward, up)}})
    : newForward \in {Normalize(VSub(target, Grounded_position(s)))},
      up \in {Grounded_up(s)},
      oldRight \in {Grounded_right(s)}})
    : s \in {s_}, target \in {target_}})

Grounded_setPosition(s_, to_) ==
    Only({IF approxEqualVec3(Grounded_position(s), to) THEN s
    ELSE Only({Only({Only({Only({IF approxEqualVec3(s1.orbitCenter, to) THEN s1 ELSE Grounded_lookAt(s2, VAdd(Grounded_position(s2), forward))
    : s2 \in {[s1 EXCEPT !.offsetQuat = Premultiply(@, rotation)]}})
    : rotation \in {SetFromUnitVectors(oldUp, newUp)}})
    : forward \in {Grounded_forward(s1)},
      newUp \in {Normalize(VSub(to, s1.orbitCenter))},
      oldUp \in {Grounded_up(s1)}})
    : s1 \in {Grounded_setDistance(s, DistanceTo(s.orbitCenter, to))}})
    : s \in {s_}, to \in {to_}})

\* setOrbitCenter: `position` is the position before the orbit center moves
Grounded_setOrbitCenter(s_, to_) ==
    Only({IF approxEqualVec3(s.orbitCenter, to) THEN s
    ELSE Only({Only({Only({Only({Only({IF ~approxEqualVec3(position, to) THEN s1 ELSE IF approxParallel(oldUp, newUp) THEN s1 ELSE Grounded_lookAt(s2, VAdd(Grounded_position(s2), forward))
    : s2 \in {[s1 EXCEPT !.offsetQuat = Premultiply(@, rotation)]}})
    : rotation \in {SetFromUnitVectors(oldUp, newUp)}})
    : forward \in {Grounded_forward(s1)},
      oldUp \in {Grounded_up(s1)},
      newUp \in {Normalize(VSub(position, to))}})
    : s1 \in {[Grounded_setDistance(s, DistanceTo(position, to)) EXCEPT !.orbitCenter = to]}})
    : position \in {Grounded_position(s)}})
    : s \in {s_}, to \in {to_}})

Grounded_saveState(s_) ==
    Only({[orbitCenter |-> s.orbitCenter, offset |-> Grounded_offset(s), forward |-> Normalize(Grounded_forward(s)), up |-> Normalize(Grounded_up(s))]
    : s \in {s_}})

\* faulty variant of the candidate search: without the last fallback AXIS.Z
Grounded_loadState_find_noZ(forward_, up_, stateUp_) ==
    Only({IF ~approxCollinear(forward, up) THEN up
    ELSE IF ~approxCollinear(forward, stateUp) THEN stateUp
    ELSE AXIS.Y
    : forward \in {forward_}, up \in {up_}, stateUp \in {stateUp_}})

\* the first of up, state.up, AXIS.Y, AXIS.Z that is not collinear with forward
Grounded_loadState_find(forward_, up_, stateUp_) ==
    Only({IF ~approxCollinear(forward, up) THEN up
    ELSE IF ~approxCollinear(forward, stateUp) THEN stateUp
    ELSE IF ~approxCollinear(forward, AXIS.Y) THEN AXIS.Y
    ELSE AXIS.Z
    : forward \in {forward_}, up \in {up_}, stateUp \in {stateUp_}})

Grounded_loadState(s, state_) ==
    Only({Only({Only({Only({Only({[orbitCenter |-> state.orbitCenter, offsetQuat |-> SetFromBasis(Direction(right), Direction(tangent), Direction(up)), distance |-> Max(EPSILON, Length(state.offset)), lookUpAngle |-> clamp(PI - AngleTo(up, forward), EPSILON, PI - EPSILON), translation |-> Zero3]
    : tangent \in {CrossFix(up, right)}})
    : right \in {Normalize(VNeg(CrossFix(Grounded_loadState_find(forward, up, state.up), forward)))}})
    : up \in {IF approxZeroVec3(state.offset) THEN VNeg(forward) ELSE Normalize(state.offset)}})
    : forward \in {Normalize(state.forward)}})
    : state \in {state_}})

---------------------------------------------------------------------------
(* Interpolators.  An interpolator is the record [now, end, vel]: the       *)
(* actual state, the target state and the damping velocities.  Each method  *)
(* is the function from the interpolator before the call to the             *)
(* interpolator after it.  An Object3D is [position, quaternion, up].       *)

\* approxEqualQuat: component-wise on unit quaternions, which on the grid is
\* identity of the representing vectors (q and -q are not approximately equal)
approxEqualQuat(a, b) == QNormalize(a) = QNormalize(b)

\* 2 * Math.tan(fov * DEG2RAD * 0.5) * distance, for the fields of view the
\* model draws (90 degrees: tan = 1; 0 degrees: tan = 0)
PanStep(fov, distance) == IF fov = 90 THEN 2 * distance ELSE 0

\* Vector3.addScaledVector(v, s) with v a fixed-point direction
AddScaledVector(a, v, sc) == VAdd(a, VScaleFix(v, sc))

\* ControlStateInterpolator.applyToObject: the object after the call
applyToObject(up, position, orientation) == [up |-> up, position |-> position, quaternion |-> orientation]

---------------------------------------------------------------------------
(* OrbitInterpolator (OrbitInterpolator.ts).                                *)

OrbitVelocity == [orbitCenter |-> Zero3, phi |-> 0, theta |-> 0, distance |-> 0, up |-> Zero3]

\* variant of setFromObject as in the earlier OrbitState: the orbit center is
\* the origin and the distance is the object's distance to it
Orbit_setFromObject_aboutOrigin(i_, o_) ==
    Only({Only({Only({[i EXCEPT !.end = Orbit_setOffset(e2, o.position)]
    : e2 \in {[e1 EXCEPT !.orbitCenter = Zero3]}})
    : e1 \in {Orbit_setUp(i.end, o.up)}})
    : i \in {i_}, o \in {o_}})

Orbit_setFromObject(i_, o_) ==
    Only({Only({Only({Only({[i EXCEPT !.end = Orbit_setOffset(e2, offset)]
    : e2 \in {[e1 EXCEPT !.orbitCenter = VSub(o.position, offset)]}})
    : offset \in {VScaleFix(ApplyQuat(AXIS.Z, o.quaternion), e1.distance)}})
    : e1 \in {Orbit_setUp(i.end, o.up)}})
    : i \in {i_}, o \in {o_}})

Orbit_clampDistance(i, min, max) == [i EXCEPT !.end = Orbit_setDistance(@, clamp(@.distance, min, max))]

\* faulty variant of dolly: takes the minimum step also when delta is zero
Orbit_dolly_alwaysStep(i_, scale, minStep, minDistance, maxDistance) ==
    Only({Only({Only({Orbit_clampDistance(i1, minDistance, maxDistance)
    : i1 \in {[i EXCEPT !.end = Orbit_setDistance(@, @.distance + (IF delta < 0 THEN -1 ELSE 1) * Max(minStep, Abs(delta)))]}})
    : delta \in {RoundDiv(i.end.distance * (scale - ONE), ONE)}})
    : i \in {i_}})

Orbit_dolly(i_, scale, minStep, minDistance, maxDistance) ==
    Only({Only({Only({Orbit_clampDistance(i1, minDistance, maxDistance)
    : i1 \in {[i EXCEPT !.end = Orbit_setDistance(@, @.distance + Sign(delta) * Max(minStep, Abs(delta)))]}})
    : delta \in {RoundDiv(i.end.distance * (scale - ONE), ONE)}})
    : i \in {i_}})

\* faulty variant of rotateLeft: turns the other way
Orbit_rotateLeft_reversed(i, theta) == [i EXCEPT !.end = Orbit_setTheta(@, @.theta - theta)]

Orbit_rotateLeft(i, theta) == [i EXCEPT !.end = Orbit_setTheta(@, @.theta + theta)]

Orbit_rotateUp(i, phi) == [i EXCEPT !.end = Orbit_setPhi(@, @.phi - phi)]

Orbit_panLeft(i_, delta, fov) ==
    Only({Only({[i EXCEPT !.end.orbitCenter = AddScaledVector(@, Orbit_right(i.now), RoundDiv(-delta * step, ONE))]
    : step \in {PanStep(fov, i.now.distance)}})
    : i \in {i_}})

Orbit_panUp(i_, delta, fov) ==
    Only({Only({[i EXCEPT !.end.orbitCenter = AddScaledVector(@, Orbit_tangent(i.now), RoundDiv(-delta * step, ONE))]
    : step \in {PanStep(fov, i.now.distance)}})
    : i \in {i_}})

\* jumpToEnd copies orbit center, phi, theta and distance (not the up vector)
Orbit_jumpToEnd(i_) ==
    Only({Only({Only({Only({Only({[i EXCEPT !.end = e, !.now = Orbit_setDistance(n3, e.distance)]
    : n3 \in {Orbit_setTheta(n2, e.theta)}})
    : n2 \in {Orbit_setPhi(n1, e.phi)}})
    : n1 \in {[i.now EXCEPT !.orbitCenter = e.orbitCenter]}})
    : e \in {Orbit_normalize(i.end)}})
    : i \in {i_}})

Orbit_discardEnd(i_) ==
    Only({Only({Only({Only({Only({[i EXCEPT !.now = n, !.end = Orbit_setDistance(e3, n.distance)]
    : e3 \in {Orbit_setTheta(e2, n.theta)}})
    : e2 \in {Orbit_setPhi(e1, n.phi)}})
    : e1 \in {[i.end EXCEPT !.orbitCenter = n.orbitCenter]}})
    : n \in {Orbit_normalize(i.now)}})
    : i \in {i_}})

\* update: the record [i |-> interpolator after the call, needsUpdate |-> result]
Orbit_update(i_, smoothTime_, deltaTime_) ==
    Only({Only({Only({Only({Only({Only({Only({Only({Only({[i |-> IF needsUpdate THEN i1 ELSE Orbit_discardEnd(i1), needsUpdate |-> needsUpdate]
    : i1 \in {[now |-> n5, end |-> end, vel |-> vel]}})
    : n5 \in {Orbit_setUp(n4, IF eqUp THEN end.up ELSE dUp[1])},
      vel \in {[orbitCenter |-> IF eqCenter THEN Zero3 ELSE dCenter[2], phi |-> IF eqPhi THEN 0 ELSE dPhi[2], theta |-> IF eqTheta THEN 0 ELSE dTheta[2], distance |-> IF eqDistance THEN 0 ELSE dDistance[2], up |-> IF eqUp THEN Zero3 ELSE dUp[2]]},
      needsUpdate \in {~(eqCenter /\ eqPhi /\ eqTheta /\ eqDistance /\ eqUp)}})
    : n4 \in {Orbit_setDistance(n3, IF eqDistance THEN end.distance ELSE dDistance[1])}})
    : n3 \in {Orbit_setTheta(n2, IF eqTheta THEN end.theta ELSE dTheta[1])}})
    : n2 \in {Orbit_setPhi(n1, IF eqPhi THEN end.phi ELSE dPhi[1])}})
    : n1 \in {[now EXCEPT !.orbitCenter = IF eqCenter THEN end.orbitCenter ELSE dCenter[1]]}})
    : eqCenter \in {approxEqualVec3(now.orbitCenter, end.orbitCenter)},
      dCenter \in {smoothDampVec3(now.orbitCenter, end.orbitCenter, i.vel.orbitCenter, smoothTime, deltaTime)},
      eqPhi \in {approxEqual(now.phi, end.phi)},
      dPhi \in {smoothDamp(now.phi, end.phi, i.vel.phi, smoothTime, Infinity, deltaTime)},
      eqTheta \in {approxEqual(now.theta, end.theta)},
      dTheta \in {smoothDamp(now.theta, end.theta, i.vel.theta, smoothTime, Infinity, deltaTime)},
      eqDistance \in {approxEqual(now.distance, end.distance)},
      dDistance \in {smoothDamp(now.distance, end.distance, i.vel.distance, smoothTime, Infinity, deltaTime)},
      eqUp \in {approxEqualVec3(now.up, end.up)},
      dUp \in {smoothDampVec3(now.up, end.up, i.vel.up, smoothTime, deltaTime)}})
    : now \in {i.now},
      end \in {i.end}})
    : i \in {i_}, smoothTime \in {smoothTime_}, deltaTime \in {deltaTime_}})

\* new OrbitInterpolator(camera)
OrbitInterpolator(camera) ==
    Orbit_jumpToEnd(Orbit_setFromObject([now |-> OrbitState, end |-> OrbitState, vel |-> OrbitVelocity], camera))

---------------------------------------------------------------------------
(* IsotropicInterpolator (GroundedInterpolator.ts, second half).            *)

IsotropicVelocity == [orbitCenter |-> Zero3, quaternion |-> "zero", distance |-> 0]

Iso_setFromObject(i_, o_) ==
    Only({Only({[i EXCEPT !.end = [e1 EXCEPT !.orbitCenter = VSub(o.position, Iso_offset(e1))]]
    : e1 \in {[i.end EXCEPT !.quaternion = o.quaternion]}})
    : i \in {i_}, o \in {o_}})

Iso_clampDistance(i, min, max) == [i EXCEPT !.end = Iso_setDistance(@, clamp(@.distance, min, max))]

Iso_dolly(i_, scale, minStep, minDistance, maxDistance) ==
    Only({Only({Only({Iso_clampDistance(i1, minDistance, maxDistance)
    : i1 \in {[i EXCEPT !.end = Iso_setDistance(@, @.distance + Sign(delta) * Max(minStep, Abs(delta)))]}})
    : delta \in {RoundDiv(i.end.distance * (scale - ONE), ONE)}})
    : i \in {i_}})

Iso_rotateLeft(i, theta) == [i EXCEPT !.end.quaternion = Multiply(@, SetFromAxisAngle(AXIS.Y, theta))]

Iso_rotateUp(i, phi) == [i EXCEPT !.end.quaternion = Multiply(@, SetFromAxisAngle(AXIS.X, -phi))]

\* faulty variant of panLeft: shifts the now state's orbit center too
Iso_panLeft_alsoNow(i_, delta, fov) ==
    Only({Only({Only({[i EXCEPT !.end.orbitCenter = shifted, !.now.orbitCenter = shifted]
    : shifted \in {AddScaledVector(i.end.orbitCenter, Iso_right(i.now), RoundDiv(-delta * step, ONE))}})
    : step \in {PanStep(fov, i.now.distance)}})
    : i \in {i_}})

Iso_panLeft(i_, delta, fov) ==
    Only({Only({[i EXCEPT !.end.orbitCenter = AddScaledVector(@, Iso_right(i.now), RoundDiv(-delta * step, ONE))]
    : step \in {PanStep(fov, i.now.distance)}})
    : i \in {i_}})

Iso_panUp(i_, delta, fov) ==
    Only({Only({[i EXCEPT !.end.orbitCenter = AddScaledVector(@, Iso_up(i.now), RoundDiv(-delta * step, ONE))]
    : step \in {PanStep(fov, i.now.distance)}})
    : i \in {i_}})

Iso_jumpToEnd(i_) ==
    Only({Only({Only({[i EXCEPT !.end = e, !.now = Iso_setDistance(n1, e.distance)]
    : n1 \in {[i.now EXCEPT !.orbitCenter = e.orbitCenter, !.quaternion = e.quaternion]}})
    : e \in {Iso_normalize(i.end)}})
    : i \in {i_}})

Iso_discardEnd(i_) ==
    Only({Only({Only({[i EXCEPT !.now = n, !.end = Iso_setDistance(e1, n.distance)]
    : e1 \in {[i.end EXCEPT !.orbitCenter = n.orbitCenter, !.quaternion = n.quaternion]}})
    : n \in {Iso_normalize(i.now)}})
    : i \in {i_}})

Iso_update(i_, smoothTime_, deltaTime_) ==
    Only({Only({Only({Only({Only({Only({[i |-> IF needsUpdate THEN i1 ELSE Iso_discardEnd(i1), needsUpdate |-> needsUpdate]
    : i1 \in {[now |-> n2, end |-> end, vel |-> vel]}})
    : n2 \in {Iso_setDistance(n1, IF eqDistance THEN end.distance ELSE dDistance[1])},
      vel \in {[orbitCenter |-> IF eqCenter THEN Zero3 ELSE dCenter[2], quaternion |-> IF eqQuat THEN "zero" ELSE dQuat[2], distance |-> IF eqDistance THEN 0 ELSE dDistance[2]]},
      needsUpdate \in {~(eqCenter /\ eqQuat /\ eqDistance)}})
    : n1 \in {[now EXCEPT !.orbitCenter = IF eqCenter THEN end.orbitCenter ELSE dCenter[1], !.quaternion = IF eqQuat THEN end.quaternion ELSE dQuat[1]]}})
    : eqCenter \in {approxEqualVec3(now.orbitCenter, end.orbitCenter)},
      dCenter \in {smoothDampVec3(now.orbitCenter, end.orbitCenter, i.vel.orbitCenter, smoothTime, deltaTime)},
      eqQuat \in {approxEqualQuat(now.quaternion, end.quaternion)},
      dQuat \in {smoothDampQuat(now.quaternion, end.quaternion, smoothTime, deltaTime)},
      eqDistance \in {approxEqual(now.distance, end.distance)},
      dDistance \in {smoothDamp(now.distance, end.distance, i.vel.distance, smoothTime, Infinity, deltaTime)}})
    : now \in {i.now},
      end \in {i.end}})
    : i \in {i_}, smoothTime \in {smoothTime_}, deltaTime \in {deltaTime_}})

\* new IsotropicInterpolator(camera)
IsotropicInterpolator(camera) ==
    Iso_jumpToEnd(Iso_setFromObject([now |-> IsotropicState, end |-> IsotropicState, vel |-> IsotropicVelocity], camera))

---------------------------------------------------------------------------
(* GroundedInterpolator (GroundedInterpolator.ts, first half).              *)

GroundedVelocity == [orbitCenter |-> Zero3, quaternion |-> "zero", lookUpAngle |-> 0, distance |-> 0, translation |-> Zero3]

Grounded_setFromObject(i_, o_) ==
    Only({Only({[i EXCEPT !.end = [e1 EXCEPT !.orbitCenter = VSub(o.position, Grounded_offset(e1))]]
    : e1 \in {[i.end EXCEPT !.offsetQuat = Premultiply(QInvert(SetFromAxisAngle(AXIS.X, i.end.lookUpAngle)), o.quaternion)]}})
    : i \in {i_}, o \in {o_}})

\* dolly: a translation along the now state's viewing direction; the square
\* root of the fixed-point distance d / ONE is sqrt(d * ONE) / ONE
Grounded_dolly(i_, scale_, minStep, minDist_, maxDist_) ==
    Only({Only({Only({Only({IF scale = 0 THEN i ELSE [i EXCEPT !.end.translation = AddScaledVector(@, direction, step)]
    : step \in {IF newDist < minDist THEN step0 + newDist - minDist ELSE IF newDist > maxDist THEN step0 + maxDist - newDist ELSE step0}})
    : newDist \in {Length(AddScaledVector(VAdd(Grounded_offset(i.end), i.end.translation), direction, step0))}})
    : direction \in {VScale(Grounded_forward(i.now), Sign(ONE - scale))},
      step0 \in {minStep + RoundDiv(Abs(ONE - scale) * ISqrt(i.now.distance * ONE, i.now.distance * ONE), ONE)}})
    : i \in {i_}, scale \in {scale_}, minDist \in {minDist_}, maxDist \in {maxDist_}})

Grounded_clampDistance(i, min, max) == [i EXCEPT !.end = Grounded_setDistance(@, clamp(@.distance, min, max))]

\* faulty variant of rotateLeft: ignores the sign of the angle
Grounded_rotateLeft_unsigned(i, theta) == [i EXCEPT !.end.offsetQuat = Multiply(@, SetFromAxisAngle(AXIS.Z, -Abs(theta)))]

Grounded_rotateLeft(i, theta) == [i EXCEPT !.end.offsetQuat = Multiply(@, SetFromAxisAngle(AXIS.Z, -theta))]

\* faulty variant of rotateUp: turns the offset around the orbit center
Grounded_rotateUp_aroundPivot(i, phi) == [i EXCEPT !.end.offsetQuat = Multiply(@, SetFromAxisAngle(AXIS.X, phi))]

Grounded_rotateUp(i, phi) == [i EXCEPT !.end = Grounded_setLookUpAngle(@, @.lookUpAngle + phi)]

\* faulty variant of panLeft: shifts the orbit center, as the other variants do
Grounded_panLeft_shiftsCenter(i, delta) == [i EXCEPT !.end.orbitCenter = AddScaledVector(@, Grounded_right(i.now), -delta)]

Grounded_panLeft(i, delta) == [i EXCEPT !.end.offsetQuat = Multiply(@, SetFromAxisAngle(AXIS.Y, -delta))]

Grounded_panUp(i, delta) == [i EXCEPT !.end.offsetQuat = Multiply(@, SetFromAxisAngle(AXIS.X, delta))]

Grounded_jumpToEnd(i_) ==
    Only({Only({Only({[i EXCEPT !.end = e, !.now = Grounded_setDistance(Grounded_setLookUpAngle(n1, e.lookUpAngle), e.distance)]
    : n1 \in {[i.now EXCEPT !.orbitCenter = e.orbitCenter, !.offsetQuat = e.offsetQuat, !.translation = e.translation]}})
    : e \in {Grounded_normalize(i.end)}})
    : i \in {i_}})

Grounded_discardEnd(i_) ==
    Only({Only({Only({[i EXCEPT !.now = n, !.end = Grounded_setDistance(Grounded_setLookUpAngle(e1, n.lookUpAngle), n.distance)]
    : e1 \in {[i.end EXCEPT !.orbitCenter = n.orbitCenter, !.offsetQuat = n.offsetQuat, !.translation = n.translation]}})
    : n \in {Grounded_normalize(i.now)}})
    : i \in {i_}})

\* update; in the translation branch the damper writes into now.translation
\* and returns that same vector as delta
Grounded_update(i_, smoothTime_, deltaTime_) ==
    Only({Only({Only({Only({Only({Only({Only({Only({[i |-> IF needsUpdate THEN i1 ELSE Grounded_discardEnd(i1), needsUpdate |-> needsUpdate]
    : i1 \in {[now |-> n4, end |-> e1, vel |-> vel]}})
    : n4 \in {IF noTranslation THEN [n3 EXCEPT !.translation = end.translation] ELSE Grounded_applyTranslation([n3 EXCEPT !.translation = dTranslation[1]], dTranslation[1], TRUE)},
      e1 \in {IF noTranslation THEN end ELSE Grounded_applyTranslation(end, dTranslation[1], FALSE)},
      vel \in {[orbitCenter |-> IF eqCenter THEN Zero3 ELSE dCenter[2], quaternion |-> IF eqQuat THEN "zero" ELSE dQuat[2], lookUpAngle |-> IF eqAngle THEN 0 ELSE dAngle[2], distance |-> IF eqDistance THEN 0 ELSE dDistance[2], translation |-> IF noTranslation THEN Zero3 ELSE dTranslation[2]]},
      needsUpdate \in {~(eqCenter /\ eqQuat /\ eqAngle /\ eqDistance /\ noTranslation)}})
    : n3 \in {Grounded_setDistance(n2, IF eqDistance THEN end.distance ELSE dDistance[1])}})
    : n2 \in {Grounded_setLookUpAngle(n1, IF eqAngle THEN end.lookUpAngle ELSE dAngle[1])}})
    : n1 \in {[now EXCEPT !.orbitCenter = IF eqCenter THEN end.orbitCenter ELSE dCenter[1], !.offsetQuat = IF eqQuat THEN end.offsetQuat ELSE dQuat[1]]}})
    : eqCenter \in {approxEqualVec3(now.orbitCenter, end.orbitCenter)},
      dCenter \in {smoothDampVec3(now.orbitCenter, end.orbitCenter, i.vel.orbitCenter, smoothTime, deltaTime)},
      eqQuat \in {approxEqualQuat(now.offsetQuat, end.offsetQuat)},
      dQuat \in {smoothDampQuat(now.offsetQuat, end.offsetQuat, smoothTime, deltaTime)},
      eqAngle \in {approxEqual(now.lookUpAngle, end.lookUpAngle)},
      dAngle \in {smoothDamp(now.lookUpAngle, end.lookUpAngle, i.vel.lookUpAngle, smoothTime, Infinity, deltaTime)},
      eqDistance \in {approxEqual(now.distance, end.distance)},
      dDistance \in {smoothDamp(now.distance, end.distance, i.vel.distance, smoothTime, Infinity, deltaTime)},
      noTranslation \in {approxZeroVec3E(end.translation, EPSILON \div 100)},
      dTranslation \in {smoothDampVec3(now.translation, end.translation, i.vel.translation, smoothTime, deltaTime)}})
    : now \in {i.now},
      end \in {i.end}})
    : i \in {i_}, smoothTime \in {smoothTime_}, deltaTime \in {deltaTime_}})

\* new GroundedInterpolator(object)
GroundedInterpolator(object) ==
    Grounded_jumpToEnd(Grounded_setFromObject([now |-> GroundedState, end |-> GroundedState, vel |-> GroundedVelocity], object))

---------------------------------------------------------------------------
(* The state machine: one interpolator of a mode chosen at start-up, driven *)
(* by the operations of ControlStateInterpolator.                           *)

VARIABLES
    mode,    \* "orbit", "isotropic" or "grounded"
    now,     \* the interpolator's actual state
    end,     \* the interpolator's target state
    vel,     \* the damping velocities
    last,    \* the last call: [op |-> name, arg |-> arguments, ret |-> result]
    ops,     \* number of calls made so far, update not counted
    timing,  \* <<smoothTime, deltaTime>> the frame loop passes to update, in ticks
    tick,    \* parity of the number of frames (calls of update) so far
    handler, \* the InteractionHandler: flags, active action and registered listeners
    controls \* the OrbitXControls facade: needsUpdate, distance limits, camera, default state

vars == <<mode, now, end, vel, last, ops, timing, tick, handler, controls>>

\* number of calls in one behaviour, update not counted
MaxOps == 2

\* largest |theta| (orbit) a rotation may build up to, in quarter turns
MaxTurns == 8

Modes == {"orbit", "isotropic", "grounded"}

\* the camera the interpolator is constructed from (as in the OrbitState test:
\* at (0, 0, 10), default up and rotation) and a second object with another up
Camera == [position |-> V3(0, 0, 10 * ONE), quaternion |-> QIdentity, up |-> AXIS.Y]

Objects == {Camera, [position |-> V3(2 * ONE, 0, 0), quaternion |-> SetFromAxisAngle(AXIS.Y, HALFPI), up |-> AXIS.Z]}

Points == {Zero3, V3(0, 0, 9 * ONE), V3(2 * ONE, 0, 0), V3(2 * ONE, 0, 10 * ONE), V3(0, 0, 20 * ONE)}

\* <<scale, minStep, minDistance, maxDistance>>
DollyArgs == {<<0, 0, EPSILON, Infinity>>, <<2 * ONE, 0, EPSILON, 3 * ONE>>, <<ONE \div 2, 0, EPSILON, Infinity>>, <<ONE \div 2, -ONE, 0, 0>>, <<ONE, ONE, EPSILON, Infinity>>, <<ONE \div 2, ONE, ONE - 1, Infinity>>}

\* <<min, max>>
ClampArgs == {<<0, 0>>, <<2 * ONE, 3 * ONE>>}

RotateLeftAngles == {HALFPI, -HALFPI, PI}

RotateUpAngles == {HALFPI, -HALFPI}

\* pan deltas: a fraction of the screen (orbit, isotropic; with fov = 90) or an angle (grounded)
PanDeltas == IF mode = "grounded" THEN {HALFPI, -HALFPI} ELSE {ONE \div 2, -(ONE \div 2)}

\* SaveState.ts: new SaveState(), and a snapshot with zero offset and another up
SaveStates == {[orbitCenter |-> Zero3, offset |-> V3(0, 0, ONE), forward |-> V3(0, 0, -ONE), up |-> AXIS.Y],
               [orbitCenter |-> V3(2 * ONE, 0, 0), offset |-> Zero3, forward |-> V3(ONE, 0, 0), up |-> AXIS.Z]}

\* <<smoothTime, deltaTime>>: a frame of half the smooth time, or of all of it
Timings == {<<2, 1>>, <<2, 2>>}

Self == [now |-> now, end |-> end, vel |-> vel]

\* OrbitXControls.getAnimatorFromMode: a new interpolator of variant m
getAnimatorFromMode(m, camera) ==
    CASE m = "orbit" -> OrbitInterpolator(camera)
      [] m = "isotropic" -> IsotropicInterpolator(camera)
      [] OTHER -> GroundedInterpolator(camera)

\* dispatch on the variant
New(camera) == getAnimatorFromMode(mode, camera)

setFromObject(i, o) ==
    CASE mode = "orbit" -> Orbit_setFromObject(i, o)
      [] mode = "isotropic" -> Iso_setFromObject(i, o)
      [] OTHER -> Grounded_setFromObject(i, o)

dolly(i, a) ==
    CASE mode = "orbit" -> Orbit_dolly(i, a[1], a[2], a[3], a[4])
      [] mode = "isotropic" -> Iso_dolly(i, a[1], a[2], a[3], a[4])
      [] OTHER -> Grounded_dolly(i, a[1], a[2], a[3], a[4])

clampDistance(i, a) ==
    CASE mode = "orbit" -> Orbit_clampDistance(i, a[1], a[2])
      [] mode = "isotropic" -> Iso_clampDistance(i, a[1], a[2])
      [] OTHER -> Grounded_clampDistance(i, a[1], a[2])

rotateLeft(i, theta) ==
    CASE mode = "orbit" -> Orbit_rotateLeft(i, theta)
      [] mode = "isotropic" -> Iso_rotateLeft(i, theta)
      [] OTHER -> Grounded_rotateLeft(i, theta)

rotateUp(i, phi) ==
    CASE mode = "orbit" -> Orbit_rotateUp(i, phi)
      [] mode = "isotropic" -> Iso_rotateUp(i, phi)
      [] OTHER -> Grounded_rotateUp(i, phi)

panLeft(i, delta) ==
    CASE mode = "orbit" -> Orbit_panLeft(i, delta, 90)
      [] mode = "isotropic" -> Iso_panLeft(i, delta, 90)
      [] OTHER -> Grounded_panLeft(i, delta)

panUp(i, delta) ==
    CASE mode = "orbit" -> Orbit_panUp(i, delta, 90)
      [] mode = "isotropic" -> Iso_panUp(i, delta, 90)
      [] OTHER -> Grounded_panUp(i, delta)

\* ControlStateInterpolator.setPosition / setOrbitCenter / lookAt / loadState: on the end state
setPosition(i, to) ==
    [i EXCEPT !.end = CASE mode = "orbit" -> Orbit_setPosition(@, to)
                        [] mode = "isotropic" -> Iso_setPosition(@, to)
                        [] OTHER -> Grounded_setPosition(@, to)]

setOrbitCenter(i, to) ==
    [i EXCEPT !.end = CASE mode = "orbit" -> Orbit_setOrbitCenter(@, to)
                        [] mode = "isotropic" -> Iso_setOrbitCenter(@, to)
                        [] OTHER -> Grounded_setOrbitCenter(@, to)]

lookAt(i, target) ==
    [i EXCEPT !.end = CASE mode = "orbit" -> Orbit_lookAt(@, target)
                        [] mode = "isotropic" -> Iso_lookAt(@, target)
                        [] OTHER -> Grounded_lookAt(@, target)]

\* loadState of an interpolator of variant m
loadStateIn(m, i, state) ==
    [i EXCEPT !.end = CASE m = "orbit" -> Orbit_loadState(@, state)
                        [] m = "isotropic" -> Iso_loadState(@, state)
                        [] OTHER -> Grounded_loadState(@, state)]

loadState(i, state) == loadStateIn(mode, i, state)

\* ControlState.saveState of a state of the current variant
SnapshotOf(s) ==
    CASE mode = "orbit" -> Orbit_saveState(s)
      [] mode = "isotropic" -> Iso_saveState(s)
      [] OTHER -> Grounded_saveState(s)

\* faulty variant of saveState: the end state's snapshot (as StateAnimator did)
saveState_ofEnd(i) == SnapshotOf(i.end)

\* ControlStateInterpolator.saveState: of the now state
saveState(i) == SnapshotOf(i.now)

\* jumpToEnd of an interpolator of variant m
jumpToEndIn(m, i) ==
    CASE m = "orbit" -> Orbit_jumpToEnd(i)
      [] m = "isotropic" -> Iso_jumpToEnd(i)
      [] OTHER -> Grounded_jumpToEnd(i)

jumpToEnd(i) == jumpToEndIn(mode, i)

discardEnd(i) ==
    CASE mode = "orbit" -> Orbit_discardEnd(i)
      [] mode = "isotropic" -> Iso_discardEnd(i)
      [] OTHER -> Grounded_discardEnd(i)

\* update of an interpolator of variant m
updateIn(m, i, smoothTime, deltaTime) ==
    CASE m = "orbit" -> Orbit_update(i, smoothTime, deltaTime)
      [] m = "isotropic" -> Iso_update(i, smoothTime, deltaTime)
      [] OTHER -> Grounded_update(i, smoothTime, deltaTime)

update(i, smoothTime, deltaTime) == updateIn(mode, i, smoothTime, deltaTime)

\* faulty variant of applyToObject: writes the end state
ApplyNow_ofEnd(i) ==
    CASE mode = "orbit" -> applyToObject(i.end.up, Orbit_position(i.end), Orbit_orientation(i.end))
      [] mode = "isotropic" -> applyToObject(Iso_up(i.end), Iso_position(i.end), Iso_orientation(i.end))
      [] OTHER -> applyToObject(Grounded_up(i.end), Grounded_position(i.end), Grounded_orientation(i.end))

\* ControlStateInterpolator.applyToObject: up, position and orientation of the now state
ApplyNow(i) ==
    CASE mode = "orbit" -> applyToObject(i.now.up, Orbit_position(i.now), Orbit_orientation(i.now))
      [] mode = "isotropic" -> applyToObject(Iso_up(i.now), Iso_position(i.now), Iso_orientation(i.now))
      [] OTHER -> applyToObject(Grounded_up(i.now), Grounded_position(i.now), Grounded_orientation(i.now))

\* OrbitXControls.setMode(m) for m other than the current mode: the snapshot
\* of the now state is loaded into a new interpolator of variant m, built
\* from the camera, and internalUpdate() jumps to the end.  The camera holds
\* what applyToObject wrote after the last update: the now state applied.
setMode(i_, m_) ==
    Only({Only({jumpToEndIn(m, loadStateIn(m, fresh, snapshot))
    : snapshot \in {saveState(i)},
      fresh \in {getAnimatorFromMode(m, ApplyNow(i))}})
    : i \in {i_}, m \in {m_}})

---------------------------------------------------------------------------
(* InteractionHandler.ts (the class at lines 339-653).  The handler is the  *)
(* record of its flags, the active action and the set of event types it     *)
(* listens to on the DOM element: addEventListener with a listener that is  *)
(* already registered does nothing.  A handler that may call rotate, pan or *)
(* dolly yields the pair <<handler afterwards, callback called or "none">>. *)

StartListeners == {"mousedown", "wheel", "touchstart"}

MouseChangeListeners == {"mouseup", "mouseleave", "mousemove"}

TouchChangeListeners == {"touchend", "touchcancel", "touchmove"}

\* after the constructor: disabled, every flag set, no action, no listener
InteractionHandler == [enabled |-> FALSE, dollyEnabled |-> TRUE, rotateEnabled |-> TRUE, panEnabled |-> TRUE, action |-> "NONE", listeners |-> {}]

startListeningToUser(h) == [h EXCEPT !.listeners = @ \cup StartListeners]

\* faulty variant of stopListeningToUser: leaves the change listeners registered
stopListeningToUser_keepsDrag(h) == [h EXCEPT !.listeners = @ \ StartListeners]

stopListeningToUser(h) == [h EXCEPT !.listeners = ((@ \ StartListeners) \ MouseChangeListeners) \ TouchChangeListeners]

enable(h) == IF h.enabled THEN h ELSE [startListeningToUser(h) EXCEPT !.enabled = TRUE]

disable(h) == IF ~h.enabled THEN h ELSE stopListeningToUser([h EXCEPT !.enabled = FALSE])

handleMouseStop(h) == [h EXCEPT !.action = "NONE", !.listeners = @ \ MouseChangeListeners]

handleMouseStart(h, button) ==
    CASE button = "LEFT" -> IF ~h.rotateEnabled THEN handleMouseStop(h) ELSE [h EXCEPT !.action = "ROTATE", !.listeners = @ \cup MouseChangeListeners]
      [] button = "RIGHT" -> IF ~h.panEnabled THEN handleMouseStop(h) ELSE [h EXCEPT !.action = "PAN", !.listeners = @ \cup MouseChangeListeners]
      [] OTHER -> handleMouseStop(h)

handleMouseMove(h) ==
    CASE h.action = "ROTATE" -> IF ~h.rotateEnabled THEN <<handleMouseStop(h), "none">> ELSE <<h, "rotate">>
      [] h.action = "PAN" -> IF ~h.panEnabled THEN <<handleMouseStop(h), "none">> ELSE <<h, "pan">>
      [] OTHER -> <<handleMouseStop(h), "none">>

\* the action is DOLLY while dolly runs and NONE afterwards
handleMouseWheel(h) == IF ~h.dollyEnabled THEN <<h, "none">> ELSE <<[h EXCEPT !.action = "NONE"], "dolly">>

handleTouchStop(h) == [h EXCEPT !.action = "NONE", !.listeners = @ \ TouchChangeListeners]

handleTouchStart(h, touches) ==
    CASE touches = 1 -> IF ~h.rotateEnabled THEN handleTouchStop(h) ELSE [h EXCEPT !.action = "TOUCH_ROTATE", !.listeners = @ \cup TouchChangeListeners]
      [] touches = 2 -> IF ~h.dollyEnabled THEN handleTouchStop(h) ELSE [h EXCEPT !.action = "TOUCH_DOLLY", !.listeners = @ \cup TouchChangeListeners]
      [] touches = 3 -> IF ~h.panEnabled THEN handleTouchStop(h) ELSE [h EXCEPT !.action = "TOUCH_PAN", !.listeners = @ \cup TouchChangeListeners]
      [] OTHER -> handleTouchStop(h)

handleTouchMove(h) ==
    CASE h.action = "TOUCH_ROTATE" -> IF ~h.rotateEnabled THEN <<handleTouchStop(h), "none">> ELSE <<h, "rotate">>
      [] h.action = "TOUCH_DOLLY" -> IF ~h.dollyEnabled THEN <<handleTouchStop(h), "none">> ELSE <<h, "dolly">>
      [] h.action = "TOUCH_PAN" -> IF ~h.panEnabled THEN <<handleTouchStop(h), "none">> ELSE <<h, "pan">>
      [] OTHER -> <<handleTouchStop(h), "none">>

---------------------------------------------------------------------------
(* Actions.                                                                 *)

Call(op, arg, ret) == [op |-> op, arg |-> arg, ret |-> ret]

\* an interpolator used on its own: no facade around it, the handler as constructed
NoFacade == handler = InteractionHandler /\ controls = "none"

\* the interpolator becomes i
Become(i) == now' = i.now /\ end' = i.end /\ vel' = i.vel /\ UNCHANGED <<handler, controls>>

\* a call of the user
Counted == ops < MaxOps /\ ops' = ops + 1 /\ UNCHANGED <<mode, timing, tick>>

Init ==
    /\ mode \in Modes
    /\ \E i \in {New(Camera)} : now = i.now /\ end = i.end /\ vel = i.vel
    /\ last = Call("new", Camera, "none")
    /\ ops = 0
    /\ timing \in Timings
    /\ tick = 0
    /\ NoFacade

SetFromObject == \E o \in Objects : Counted /\ \E i \in {setFromObject(Self, o)} : Become(i) /\ last' = Call("setFromObject", o, "none")

Dolly == \E a \in DollyArgs : Counted /\ \E i \in {dolly(Self, a)} : Become(i) /\ last' = Call("dolly", a, "none")

ClampDistance == \E a \in ClampArgs : Counted /\ \E i \in {clampDistance(Self, a)} : Become(i) /\ last' = Call("clampDistance", a, "none")

RotateLeft ==
    \E theta \in RotateLeftAngles :
        /\ mode = "orbit" => Abs(end.theta + theta) <= MaxTurns * HALFPI
        /\ Counted /\ \E i \in {rotateLeft(Self, theta)} : Become(i) /\ last' = Call("rotateLeft", theta, "none")

RotateUp == \E phi \in RotateUpAngles : Counted /\ \E i \in {rotateUp(Self, phi)} : Become(i) /\ last' = Call("rotateUp", phi, "none")

PanLeft == \E delta \in PanDeltas : Counted /\ \E i \in {panLeft(Self, delta)} : Become(i) /\ last' = Call("panLeft", delta, "none")

PanUp == \E delta \in PanDeltas : Counted /\ \E i \in {panUp(Self, delta)} : Become(i) /\ last' = Call("panUp", delta, "none")

SetPosition == \E to \in Points : Counted /\ \E i \in {setPosition(Self, to)} : Become(i) /\ last' = Call("setPosition", to, "none")

SetOrbitCenter == \E to \in Points : Counted /\ \E i \in {setOrbitCenter(Self, to)} : Become(i) /\ last' = Call("setOrbitCenter", to, "none")

LookAt == \E target \in Points : Counted /\ \E i \in {lookAt(Self, target)} : Become(i) /\ last' = Call("lookAt", target, "none")

\* loadState of a given snapshot, or of the snapshot saveState() returns now
LoadState ==
    \E state \in SaveStates \cup {saveState(Self)} :
        Counted /\ \E i \in {loadState(Self, state)} : Become(i) /\ last' = Call("loadState", state, "none")

SaveState == Counted /\ Become(Self) /\ last' = Call("saveState", "none", saveState(Self))

ApplyToObject == Counted /\ Become(Self) /\ last' = Call("applyToObject", "none", ApplyNow(Self))

\* OrbitXControls.setMode(m); nothing happens when m is the current mode
SetMode ==
    \E m \in Modes \ {mode} :
        /\ ops < MaxOps /\ ops' = ops + 1 /\ mode' = m /\ UNCHANGED <<timing, tick>>
        /\ \E i \in {setMode(Self, m)} : Become(i) /\ last' = Call("setMode", m, "none")

JumpToEnd == Counted /\ \E i \in {jumpToEnd(Self)} : Become(i) /\ last' = Call("jumpToEnd", "none", "none")

DiscardEnd == Counted /\ \E i \in {discardEnd(Self)} : Become(i) /\ last' = Call("discardEnd", "none", "none")

\* one frame: update(smoothTime, deltaTime)
Update ==
    \E r \in {update(Self, timing[1], timing[2])} :
        /\ Become(r.i) /\ last' = Call("update", timing, r.needsUpdate)
        /\ tick' = 1 - tick
        /\ UNCHANGED <<mode, ops, timing>>

Next ==
    \/ SetFromObject \/ Dolly \/ ClampDistance \/ RotateLeft \/ RotateUp \/ PanLeft \/ PanUp
    \/ SetPosition \/ SetOrbitCenter \/ LookAt \/ LoadState
    \/ SaveState \/ ApplyToObject \/ JumpToEnd \/ DiscardEnd \/ SetMode
    \/ Update

Spec == Init /\ [][Next]_vars

\* the frame loop keeps calling update
SpecLive == Spec /\ WF_vars(Update)

---------------------------------------------------------------------------
(* Properties.                                                              *)

\* the interpolator after the step
SelfNext == [now |-> now', end |-> end', vel |-> vel']

\* the step is a call of the user (every such call is counted)
IsCall(names) == ops' = ops + 1 /\ last'.op \in names

Transforms == {"dolly", "rotateLeft", "rotateUp", "panLeft", "panUp", "setPosition", "setOrbitCenter", "lookAt", "clampDistance"}

\* C1: in every variant, a transform call (dolly, rotateLeft, rotateUp,
\* panLeft, panUp, setPosition, setOrbitCenter, lookAt, clampDistance) with
\* any arguments leaves every parameter of the now state unchanged; only the
\* end state may change.
C1_TransformsKeepNow == [][IsCall(Transforms) => now' = now]_vars

\* a transform has been called on the freshly constructed interpolator and
\* has moved the end state away from the now state
C1_Witness == ops = 1 /\ last.op \in Transforms /\ now = New(Camera).now /\ end # now

\* C2: in every variant and after any sequence of operations (including a
\* setFromObject or loadState with another up vector), an update that
\* immediately follows jumpToEnd returns false.
C2_JumpToEndThenUpdate == [][(last.op = "jumpToEnd" /\ last'.op = "update") => last'.ret = FALSE]_vars

\* C3: in every variant, when no transform is called any more and the frame
\* loop keeps calling update with its fixed positive smoothTime and
\* deltaTime, eventually update returns false, and so does every later update
\* (also for a quaternion whose target is more than a half turn away).
C3_UpdateSettles == (<>[][Update]_vars) => <>[](last.op = "update" /\ last.ret = FALSE)

\* C4: in every reachable state of every variant the distance of the now
\* state and of the end state is at least EPSILON, whatever was called
\* (scale 0, negative steps, a position equal to the orbit center, limits
\* below EPSILON).
C4_DistanceAtLeastEpsilon == now.distance >= EPSILON /\ end.distance >= EPSILON

\* clampDistance(0, 0) has been called and the end distance stopped at EPSILON
C4_Witness == last.op = "clampDistance" /\ last.arg = <<0, 0>> /\ end.distance = EPSILON

InPoleRange(angle) == EPSILON <= angle /\ angle <= PI - EPSILON

\* C5: pole lock: phi of the orbit variant and lookUpAngle of the grounded
\* variant, of the now state and of the end state, stay within
\* [EPSILON, PI - EPSILON]; no rotateUp, lookAt, applyTranslation, loadState
\* or damping step moves them outside.
C5_PoleLock ==
    /\ mode = "orbit" => InPoleRange(now.phi) /\ InPoleRange(end.phi)
    /\ mode = "grounded" => InPoleRange(now.lookUpAngle) /\ InPoleRange(end.lookUpAngle)

\* rotateUp has pushed the grounded look up angle against the upper pole, or
\* the orbit phi against the lower one
C5_Witness ==
    /\ last.op = "rotateUp"
    /\ \/ mode = "grounded" /\ last.arg = HALFPI /\ end.lookUpAngle = PI - EPSILON
       \/ mode = "orbit" /\ last.arg = HALFPI /\ end.phi = EPSILON

C7_IsoSetPosition ==
    [][(mode = "isotropic" /\ IsCall({"setPosition"}) /\ ~approxEqualVec3(last'.arg, end.orbitCenter))
        => LET i2 == Iso_jumpToEnd(SelfNext)
           IN approxEqualVec3(Iso_position(i2.now), last'.arg) /\ i2.end.orbitCenter = end.orbitCenter]_vars

AlongAxis(v) == \E a \in {AXIS.X, AXIS.Y, AXIS.Z} : v = a \/ v = VNeg(a)

\* C9: orbit variant: rotateLeft(theta) keeps the distance and, for an up
\* vector along a coordinate axis, turns the position relative to the orbit
\* center about the up vector by theta and keeps its height; with up = Y,
\* rotateLeft(PI / 2) takes (x, y, z) to (z, y, -x).
C9_OrbitRotateLeft ==
    [][(mode = "orbit" /\ IsCall({"rotateLeft"}))
        => LET o == Orbit_offset(end)
           IN /\ end'.distance = end.distance
              /\ AlongAxis(end.up)
                    => /\ Orbit_offset(end') = ApplyQuat(o, SetFromAxisAngle(end.up, last'.arg))
                       /\ Dot(Orbit_offset(end'), end.up) = Dot(o, end.up)
              /\ (end.up = AXIS.Y /\ last'.arg = HALFPI) => Orbit_offset(end') = V3(o.z, o.y, -o.x)]_vars

\* rotateLeft(PI / 2) has turned the camera from the z axis to the x axis
C9_Witness ==
    /\ mode = "orbit" /\ ops = 1 /\ last.op = "rotateLeft" /\ last.arg = HALFPI /\ end.up = AXIS.Y
    /\ Orbit_offset(now) = V3(0, 0, ONE) /\ Orbit_offset(end) = V3(ONE, 0, 0)

\* C10: in every variant, for every angle t and reachable end state,
\* rotateLeft(t) followed by rotateLeft(-t) restores all parameters of the
\* end state.
C10_RotateLeftInverse == [][IsCall({"rotateLeft"}) => rotateLeft(SelfNext, -last'.arg).end = end]_vars

\* rotateLeft has changed the end state, and rotateLeft by the opposite angle leads back to the now state
C10_Witness == ops = 1 /\ last.op = "rotateLeft" /\ end # now /\ rotateLeft(Self, -last.arg).end = now


\* a fresh state of the current variant that has loaded the snapshot of s
Reloaded(s) ==
    CASE mode = "orbit" -> Orbit_loadState(OrbitState, Orbit_saveState(s))
      [] mode = "isotropic" -> Iso_loadState(IsotropicState, Iso_saveState(s))
      [] OTHER -> Grounded_loadState(GroundedState, Grounded_saveState(s))

\* ControlState.position of a state of variant m
PositionIn(m, s) ==
    CASE m = "orbit" -> Orbit_position(s)
      [] m = "isotropic" -> Iso_position(s)
      [] OTHER -> Grounded_position(s)

PositionOf(s) == PositionIn(mode, s)

ForwardOf(s) ==
    CASE mode = "orbit" -> Orbit_forward(s)
      [] mode = "isotropic" -> Iso_forward(s)
      [] OTHER -> Grounded_forward(s)

RoundTrip(s) ==
    \A f \in {Reloaded(s)} :
        approxEqualVec3(PositionOf(f), PositionOf(s)) /\ approxEqualVec3(ForwardOf(f), ForwardOf(s))

\* C11: same-variant round trip: in every variant and for every reachable
\* state s (now or end), a fresh state of the variant that executes
\* loadState(s.saveState()) has the position and the forward direction of s,
\* within EPSILON.
C11_SameVariantRoundTrip == RoundTrip(now) /\ RoundTrip(end)

\* the state is converged: the now state has reached the end state
Converged == now = end

\* C12: mode switch without a visible jump: for every ordered pair of
\* distinct modes and every converged state with distance > EPSILON, after
\* setMode(m) the position the next update writes to the camera is the
\* position before the switch, within EPSILON.
C12_ModeSwitchKeepsPosition ==
    [][(IsCall({"setMode"}) /\ Converged /\ now.distance > EPSILON)
        => approxEqualVec3(PositionIn(mode', updateIn(mode', SelfNext, timing[1], timing[2]).i.now), PositionIn(mode, now))]_vars

\* the vector lies along a coordinate axis, where directions and angles of
\* the model are exact
OnAxis(v) == Cardinality({c \in {"x", "y", "z"} : v[c] # 0}) = 1

\* C13: in every variant, for every new center `to` that differs from the
\* old orbit center and from the camera position (and lies on a coordinate
\* axis through that position), setOrbitCenter(to) leaves the position
\* (orbitCenter + offset) of the end state unchanged and sets its orbit
\* center to `to`.
C13_SetOrbitCenterKeepsPosition ==
    [][(/\ IsCall({"setOrbitCenter"})
        /\ ~approxEqualVec3(last'.arg, end.orbitCenter)
        /\ ~approxEqualVec3(last'.arg, PositionOf(end))
        /\ OnAxis(VSub(PositionOf(end), last'.arg)))
        => approxEqualVec3(PositionOf(end'), PositionOf(end)) /\ end'.orbitCenter = last'.arg]_vars

\* C14: in every variant and for every target different from the camera
\* position (on a coordinate axis through it), after lookAt(target) the
\* forward direction of the end state points from its position towards the
\* target, and the position is unchanged.
C14_LookAtFacesTarget ==
    [][(/\ IsCall({"lookAt"})
        /\ ~approxEqualVec3(last'.arg, PositionOf(end))
        /\ OnAxis(VSub(last'.arg, PositionOf(end))))
        => /\ approxParallel(ForwardOf(end'), Normalize(VSub(last'.arg, PositionOf(end))))
           /\ approxEqualVec3(PositionOf(end'), PositionOf(end))]_vars

TargetWithin(s, minDist, maxDist) ==
    \A v \in {VAdd(Grounded_offset(s), s.translation)} :
        /\ Dot(v, v) >= minDist * minDist
        /\ maxDist >= Infinity \/ Dot(v, v) <= maxDist * maxDist

\* C17: grounded variant: if the target distance including the pending
\* translation (the length of end.offset + end.translation) is within
\* [minDist, maxDist] before dolly(scale, minStep, minDist, maxDist), it is
\* within [minDist, maxDist] after the call, for every scale and every
\* minStep >= 0.
C17_GroundedDollyWithinLimits ==
    [][(/\ mode = "grounded" /\ IsCall({"dolly"}) /\ last'.arg[2] >= 0
        /\ TargetWithin(end, last'.arg[3], last'.arg[4]))
        => TargetWithin(end', last'.arg[3], last'.arg[4])]_vars

\* C18: in every variant and in any state, after discardEnd() every
\* component of the end state equals that of the now state (the up vector of
\* the orbit variant included), and an update that follows immediately
\* returns false.
C18_DiscardEndCopiesNow ==
    [][IsCall({"discardEnd"})
        => end' = now' /\ update(SelfNext, timing[1], timing[2]).needsUpdate = FALSE]_vars

\* the step is a frame: one call of update
IsUpdate == tick' # tick

\* every tracked component of n is approximately equal to that of e
ApproxSame(n, e) ==
    CASE mode = "orbit" ->
            /\ approxEqualVec3(n.orbitCenter, e.orbitCenter) /\ approxEqual(n.phi, e.phi) /\ approxEqual(n.theta, e.theta)
            /\ approxEqual(n.distance, e.distance) /\ approxEqualVec3(n.up, e.up)
      [] mode = "isotropic" ->
            /\ approxEqualVec3(n.orbitCenter, e.orbitCenter) /\ approxEqualQuat(n.quaternion, e.quaternion)
            /\ approxEqual(n.distance, e.distance)
      [] OTHER ->
            /\ approxEqualVec3(n.orbitCenter, e.orbitCenter) /\ approxEqualQuat(n.offsetQuat, e.offsetQuat)
            /\ approxEqual(n.lookUpAngle, e.lookUpAngle) /\ approxEqual(n.distance, e.distance)
            /\ approxEqualVec3(n.translation, e.translation)

\* normalize() of a state of the current variant
NormalizedOf(s) ==
    CASE mode = "orbit" -> Orbit_normalize(s)
      [] mode = "isotropic" -> Iso_normalize(s)
      [] OTHER -> Grounded_normalize(s)

\* C19: update returns true iff at least one tracked component of the now
\* state was not approximately equal to that of the end state when the call
\* started; when it returns false, the end state is reset to the normalized
\* now state, so that afterwards the end state equals the now state.
C19_UpdateReportsUnequal ==
    [][IsUpdate
        => /\ last'.ret = ~ApproxSame(now, end)
           /\ last'.ret = FALSE => (end' = now' /\ now' = NormalizedOf(now'))]_vars

\* the up vector and the orientation of a state of the current variant
UpOf(s) ==
    CASE mode = "orbit" -> s.up
      [] mode = "isotropic" -> Iso_up(s)
      [] OTHER -> Grounded_up(s)

OrientationOf(s) ==
    CASE mode = "orbit" -> Orbit_orientation(s)
      [] mode = "isotropic" -> Iso_orientation(s)
      [] OTHER -> Grounded_orientation(s)

\* what an object holds once the state s has been written into it
Written(s) == [up |-> UpOf(s), position |-> PositionOf(s), quaternion |-> OrientationOf(s)]

\* C20: applyToObject(o) writes the up vector, the position and the
\* orientation of the now state into o and leaves every parameter of the now
\* state and of the end state and every velocity unchanged; a second call
\* right after it would write the same values.
C20_ApplyToObjectIsPure ==
    [][IsCall({"applyToObject"})
        => /\ last'.ret = Written(now)
           /\ now' = now /\ end' = end /\ vel' = vel
           /\ Written(now') = last'.ret]_vars

\* applyToObject has been called in flight: the now state has left the
\* camera's position and has not reached the end state yet
C20_Witness ==
    /\ ops = 2 /\ last.op = "applyToObject" /\ last.ret = Written(now)
    /\ last.ret.position # Camera.position
    /\ ~approxEqualVec3(PositionOf(now), PositionOf(end))

\* C21: in every variant, setFromObject(o) followed by jumpToEnd() and
\* applyToObject(o) leaves the position and the orientation of o as they
\* were, and setFromObject leaves the distance of the end state unchanged.
C21_SetFromObjectKeepsObject ==
    [][IsCall({"setFromObject"})
        => /\ \A w \in {ApplyNow(jumpToEnd(SelfNext))} :
                /\ approxEqualVec3(w.position, last'.arg.position)
                /\ approxEqualQuat(w.quaternion, last'.arg.quaternion)
           /\ end'.distance = end.distance]_vars

\* the right axis of a state of the current variant
RightOf(s) ==
    CASE mode = "orbit" -> Orbit_right(s)
      [] mode = "isotropic" -> Iso_right(s)
      [] OTHER -> Grounded_right(s)

\* a, b and c are of unit length and pairwise orthogonal, within tolerance
Orthonormal(a, b, c) ==
    /\ approxEqual(Length(a), ONE) /\ approxEqual(Length(b), ONE) /\ approxEqual(Length(c), ONE)
    /\ approxZero(DotFix(a, b)) /\ approxZero(DotFix(b, c)) /\ approxZero(DotFix(a, c))

\* C22: in every reachable state of every variant the derived axes right, up
\* and forward of the now state and of the end state are of unit length and
\* pairwise orthogonal, within tolerance; the right axis of the orbit variant
\* is of unit length for every phi in the pole-lock range.
C22_AxesOrthonormal ==
    \A s \in {now, end} : Orthonormal(RightOf(s), UpOf(s), ForwardOf(s))

GroundedInteractions == {"rotateLeft", "rotateUp", "panLeft", "panUp", "dolly"}

\* C23: grounded variant, starting with the now state's orbit center on the
\* end state's: no rotateLeft, rotateUp, panLeft, panUp or dolly call and no
\* update between them changes the orbit center of the end state or of the
\* now state.
C23_GroundedCenterFixed ==
    [][(/\ mode = "grounded" /\ now.orbitCenter = end.orbitCenter
        /\ IsCall(GroundedInteractions) \/ IsUpdate)
        => end'.orbitCenter = end.orbitCenter /\ now'.orbitCenter = now.orbitCenter]_vars

\* a pan or dolly has been called after an odd number of frames, while the
\* now state was turning around the orbit center the interpolator started with
C23_Witness ==
    /\ mode = "grounded" /\ ops = 2 /\ tick = 1 /\ last.op \in {"panLeft", "panUp", "dolly"}
    /\ now.offsetQuat # New(Camera).now.offsetQuat /\ end.offsetQuat # now.offsetQuat
    /\ now.orbitCenter = New(Camera).now.orbitCenter /\ end.orbitCenter = now.orbitCenter

\* n is in canonical form, and normalize() changes nothing in it
Canonical(n) ==
    /\ NormalizedOf(n) = n
    /\ mode = "orbit" => 0 <= n.theta /\ n.theta < TWOPI
    /\ mode = "grounded" => n.translation = Zero3

\* C24 as stated: in every variant normalize() is idempotent, its result has
\* the orbit variant's theta in [0, 2 PI) and the grounded variant's pending
\* translation zero, and the derived position of the state is the same
\* before and after normalize().
C24_NormalizeKeepsPosition ==
    \A s \in {now, end} : \A n \in {NormalizedOf(s)} :
        Canonical(n) /\ approxEqualVec3(PositionOf(n), PositionOf(s))

\* C24 amended: in every variant normalize() is idempotent, its result has
\* the orbit variant's theta in [0, 2 PI) and the grounded variant's pending
\* translation zero; the derived position is the same before and after
\* normalize() in the orbit and isotropic variants, and in the grounded
\* variant the position after normalize() is the position before it plus the
\* pending translation, which is folded into offsetQuat, lookUpAngle and
\* distance (checked where offset plus translation lies on a coordinate axis).
C24_NormalizeFoldsTranslation ==
    \A s \in {now, end} : \A n \in {NormalizedOf(s)} :
        /\ Canonical(n)
        /\ mode # "grounded" => approxEqualVec3(PositionOf(n), PositionOf(s))
        /\ (mode = "grounded" /\ OnAxis(VAdd(Grounded_offset(s), s.translation)))
            => approxEqualVec3(PositionOf(n), VAdd(PositionOf(s), s.translation))

\* jumpToEnd has normalized the end state of the grounded variant after a
\* dolly half way to the orbit center: the translation is folded in
C24_Witness ==
    /\ mode = "grounded" /\ ops = 2 /\ last.op = "jumpToEnd"
    /\ end.translation = Zero3 /\ end = NormalizedOf(end)
    /\ PositionOf(end) = V3(0, 0, 10 * ONE - ONE \div 2)

\* C25: when loadState of the orbit or isotropic variant is given a snapshot
\* whose up is collinear with the forward direction it loads, as every
\* snapshot saved by a grounded state is (the mode switch from grounded
\* loads one), the right vector of the basis it builds is not of zero
\* length: the isotropic variant's cross product of forward and up, the
\* orbit variant's right axis of the loaded state.
C25_LoadStateBasis ==
    [][(IsCall({"setMode"}) /\ mode = "grounded")
        => \A snapshot \in {saveState(Self)} :
            /\ mode' = "isotropic" => ~approxZeroVec3(Iso_loadState_right(snapshot))
            /\ mode' = "orbit" => ~approxZeroVec3(Orbit_right(Orbit_loadState(OrbitInterpolator(ApplyNow(Self)).end, snapshot)))]_vars

\* the offset of a state of the current variant
OffsetOf(s) ==
    CASE mode = "orbit" -> Orbit_offset(s)
      [] mode = "isotropic" -> Iso_offset(s)
      [] OTHER -> Grounded_offset(s)

\* C26: loadState of the orbit and isotropic variants: when the snapshot's
\* offset is not numerically zero the loaded offset is the snapshot's offset
\* (on a coordinate axis here), whatever the snapshot's forward is; when it
\* is numerically zero the loaded state has distance EPSILON and looks along
\* the snapshot's forward.
C26_LoadStateOffset ==
    [][(mode \in {"orbit", "isotropic"} /\ IsCall({"loadState"}))
        => \A state \in {last'.arg} :
            /\ (~approxZeroVec3(state.offset) /\ OnAxis(state.offset))
                => approxEqualVec3(OffsetOf(end'), state.offset)
            /\ approxZeroVec3(state.offset)
                => end'.distance = EPSILON /\ approxParallel(ForwardOf(end'), Normalize(state.forward))]_vars

\* C27: grounded variant, an update that advances the translation (the end
\* state's pending translation is not zero): with delta the damped step,
\* after that same call the now state's translation is zero, the end
\* state's translation is its value before the call minus delta, and delta
\* is folded into rotation and distance of both states: the end state's
\* position has moved by delta, and so has the now state's when its other
\* components were on the end state's (checked where offset plus delta lies
\* on a coordinate axis).
C27_TranslationCoupled ==
    [][(mode = "grounded" /\ IsUpdate /\ ~approxZeroVec3E(end.translation, EPSILON \div 100))
        => \A delta \in {smoothDampVec3(now.translation, end.translation, vel.translation, timing[1], timing[2])[1]} :
            /\ last'.ret = TRUE
            /\ now'.translation = Zero3
            /\ end'.translation = VSub(end.translation, delta)
            /\ OnAxis(VAdd(Grounded_offset(end), delta))
                => /\ approxEqualVec3(PositionOf(end'), VAdd(PositionOf(end), delta))
                   /\ [now EXCEPT !.translation = end.translation] = end
                        => approxEqualVec3(PositionOf(now'), VAdd(PositionOf(now), delta))]_vars

\* an update has advanced the now state by a part of the dolly's translation
\* and has left the rest of it pending in the end state
C27_Witness ==
    /\ mode = "grounded" /\ ops = 1 /\ last.op = "update" /\ last.ret = TRUE
    /\ now.translation = Zero3 /\ end.translation # Zero3
    /\ PositionOf(now) # Camera.position /\ PositionOf(end) = PositionOf(now)

\* C28: orbit variant: assigning a new up vector to a state (the up setter,
\* which setFromObject, loadState and update call) keeps the state's
\* offset, the camera position relative to the orbit center.
C28_SetUpKeepsOffset ==
    mode = "orbit"
        => \A s \in {now, end} : \A v \in {AXIS.X, AXIS.Y, AXIS.Z} :
            approxEqualVec3(Orbit_offset(Orbit_setUp(s, v)), Orbit_offset(s))

\* C29: grounded variant: rotateLeft(theta) and rotateUp(phi) turn the
\* viewing direction only: position, offset, distance, orbit center and
\* pending translation of the end state are the same after the call as
\* before.
C29_GroundedRotateInPlace ==
    [][(mode = "grounded" /\ IsCall({"rotateLeft", "rotateUp"}))
        => /\ Grounded_position(end') = Grounded_position(end)
           /\ Grounded_offset(end') = Grounded_offset(end)
           /\ end'.distance = end.distance
           /\ end'.orbitCenter = end.orbitCenter
           /\ end'.translation = end.translation]_vars

\* one rotateLeft or rotateUp on the new grounded interpolator: the end
\* state's orientation has turned, its position is still the now state's
C29_Witness ==
    /\ mode = "grounded" /\ ops = 1 /\ last.op \in {"rotateLeft", "rotateUp"}
    /\ Grounded_orientation(end) # Grounded_orientation(now)
    /\ Grounded_position(end) = Grounded_position(now)

\* The setter of OrbitState.offset on its own, from every theta an interaction
\* can leave behind: rotateLeft adds any angle to theta, and theta is wrapped
\* only on normalization.
Thetas == -(MaxTurns * HALFPI) .. MaxTurns * HALFPI

Ups == {AXIS.Y, AXIS.Z}

Offsets == {Zero3, V3(ONE, 0, 0), V3(-ONE, 0, 0), V3(0, ONE, 0), V3(0, -ONE, 0), V3(0, 0, ONE), V3(0, 0, -ONE),
            V3(10 * ONE, 0, ONE), V3(-ONE, 0, -(10 * ONE)), V3(ONE, 2 * ONE, -(3 * ONE)), V3(-(3 * ONE), ONE, 2 * ONE)}

InitOffset ==
    /\ mode = "orbit"
    /\ \E theta \in Thetas, up \in Ups : \E i \in {New(Camera)} : \E s \in {[i.end EXCEPT !.theta = theta, !.up = up]} :
        now = s /\ end = s /\ vel = i.vel
    /\ last = Call("new", Camera, "none")
    /\ ops = 0
    /\ timing = <<2, 1>>
    /\ tick = 0
    /\ NoFacade

\* state.offset = to, on the end state
SetOffset == \E to \in Offsets : Counted /\ end' = Orbit_setOffset(end, to) /\ last' = Call("setOffset", to, "none") /\ UNCHANGED <<now, vel, handler, controls>>

NextOffset == SetOffset

SpecOffset == InitOffset /\ [][NextOffset]_vars

C30_WitnessPositive ==
    /\ last.op = "setOffset" /\ ops = 1
    /\ now.theta >= TWOPI
    /\ end.theta # now.theta
    /\ TruncDiv(end.theta, TWOPI) # TruncDiv(now.theta, TWOPI)

\* C32: lookAt of the grounded variant leaves the orbit center, the distance
\* and the position of the end state alone, and changes nothing at all when
\* the position approximately equals the target or forward is already
\* parallel to the direction to the target.
C32_GroundedLookAtInPlace ==
    [][(mode = "grounded" /\ IsCall({"lookAt"})) =>
        \A target \in {last'.arg} :
            /\ now' = now
            /\ end'.orbitCenter = end.orbitCenter
            /\ end'.distance = end.distance
            /\ end'.translation = end.translation
            /\ Grounded_position(end') = Grounded_position(end)
            /\ approxEqualVec3(Grounded_position(end), target) => end' = end
            /\ (~approxEqualVec3(Grounded_position(end), target)
                  /\ approxParallel(Grounded_forward(end), Normalize(VSub(target, Grounded_position(end))))) => end' = end]_vars

\* a lookAt that turned the view, and one that returned early
C32_Witness ==
    /\ mode = "grounded" /\ ops = 2 /\ last.op = "lookAt"
    /\ Grounded_forward(end) # Grounded_forward(now)
    /\ Grounded_position(end) = Grounded_position(now)
    /\ approxParallel(Grounded_forward(end), Normalize(VSub(last.arg, Grounded_position(end))))

C32_WitnessNoOp ==
    /\ mode = "grounded" /\ ops = 1 /\ last.op = "lookAt" /\ end = now
    /\ ~approxEqualVec3(Grounded_position(end), last.arg)

\* smoothDamp on its own: the inputs are drawn in the initial state and each
\* step feeds the value and the velocity it returns into the next call, as
\* update does frame after frame.  last.arg is <<current, target, velocity>>.
DampValues == {-(4 * ONE), -ONE, 0, ONE, 4 * ONE}

DampTargets == {-(2 * ONE), 0, 2 * ONE}

DampVelocities == {-(8 * ONE), -ONE, 0, ONE, 8 * ONE}

InitDamp ==
    /\ mode = "orbit"
    /\ \E i \in {New(Camera)} : now = i.now /\ end = i.end /\ vel = i.vel
    /\ \E current \in DampValues, target \in DampTargets, velocity \in DampVelocities :
        last = Call("new", <<current, target, velocity>>, "none")
    /\ ops = 0
    /\ timing \in Timings
    /\ tick = 0
    /\ NoFacade

\* output = smoothDamp(current, target, velocityRef, smoothTime, Infinity, deltaTime)
SmoothDamp ==
    /\ Counted
    /\ \E r \in {smoothDamp(last.arg[1], last.arg[2], last.arg[3], timing[1], Infinity, timing[2])} :
        last' = Call("smoothDamp", <<r[1], last.arg[2], r[2]>>, r[1])
    /\ UNCHANGED <<now, end, vel, handler, controls>>

NextDamp == SmoothDamp

SpecDamp == InitDamp /\ [][NextDamp]_vars

\* target + (change + temp) * exp, the output before the overshoot test
RawOutput(current, target, velocity, st, dt) ==
    target + TruncDiv(((current - target) * st + (velocity * st + 2 * (current - target)) * dt) * ExpNum(st, dt), st * ExpDen(st, dt))

\* C33: the value smoothDamp returns lies between current and target
\* (inclusive) for every current, target and velocity, and it is target
\* itself when the output before the overshoot test is beyond target.
C33_SmoothDampBetween ==
    [][IsCall({"smoothDamp"}) =>
        \A current \in {last.arg[1]}, target \in {last.arg[2]}, velocity \in {last.arg[3]}, output \in {last'.ret} :
            /\ Min(current, target) <= output /\ output <= Max(current, target)
            /\ \A raw \in {RawOutput(current, target, velocity, timing[1], timing[2])} :
                ((current < target /\ raw > target) \/ (current > target /\ raw < target)) => output = target]_vars

\* C35: dolly of the grounded variant adds a pending translation with a
\* positive component along the now state's forward when scale > 1, one with
\* a negative component when 0 < scale < 1, and none when scale = 1.
C35_GroundedDollyDirection ==
    [][(mode = "grounded" /\ IsCall({"dolly"})) =>
        \A scale \in {last'.arg[1]}, along \in {Dot(VSub(end'.translation, end.translation), Grounded_forward(now))} :
            /\ scale > ONE => along > 0
            /\ (0 < scale /\ scale < ONE) => along < 0
            /\ scale = ONE => end'.translation = end.translation]_vars

\* GroundedState.loadState on its own, for snapshots with zero and non-zero
\* offset and with forward and up along every world axis, collinear or not.
AxisVectors == {V3(ONE, 0, 0), V3(-ONE, 0, 0), V3(0, ONE, 0), V3(0, -ONE, 0), V3(0, 0, ONE), V3(0, 0, -ONE)}

Snapshots ==
    {[orbitCenter |-> Zero3, offset |-> offset, forward |-> forward, up |-> up]
        : offset \in {Zero3, V3(0, 0, ONE), V3(2 * ONE, 0, 0), V3(0, -ONE, 0)}, forward \in AxisVectors, up \in AxisVectors}

InitLoad ==
    /\ mode = "grounded"
    /\ \E i \in {New(Camera)} : now = i.now /\ end = i.end /\ vel = i.vel
    /\ last = Call("new", Camera, "none")
    /\ ops = 0
    /\ timing = <<2, 1>>
    /\ tick = 0
    /\ NoFacade

LoadSnapshot == \E state \in Snapshots : Counted /\ \E i \in {loadState(Self, state)} : Become(i) /\ last' = Call("loadState", state, "none")

NextLoad == LoadSnapshot

SpecLoad == InitLoad /\ [][NextLoad]_vars

\* the vector the candidate search of GroundedState.loadState returns for a snapshot
Found(state) ==
    Grounded_loadState_find(Normalize(state.forward), IF approxZeroVec3(state.offset) THEN VNeg(Normalize(state.forward)) ELSE Normalize(state.offset), state.up)

\* C34: for every snapshot loaded into a grounded state the candidate search
\* over [up, state.up, AXIS.Y, AXIS.Z] returns a vector that is not collinear
\* with forward (the search never comes back empty), and the state is loaded.
C34_LoadStateFindsCandidate ==
    [][IsCall({"loadState"}) =>
        \A state \in {last'.arg} :
            /\ ~approxCollinear(Normalize(state.forward), Found(state))
            /\ end'.orbitCenter = state.orbitCenter /\ end'.translation = Zero3
            /\ OnGrid(end'.offsetQuat)]_vars

\* a snapshot for which only the last candidate, AXIS.Z, is left
C34_Witness ==
    /\ mode = "grounded" /\ last.op = "loadState"
    /\ approxZeroVec3(last.arg.offset)
    /\ approxCollinear(Normalize(last.arg.forward), AXIS.Y)
    /\ approxCollinear(Normalize(last.arg.forward), last.arg.up)
    /\ Found(last.arg) = AXIS.Z

---------------------------------------------------------------------------
(* The InteractionHandler on its own: enable, disable, assignments to the   *)
(* three flags, and the DOM events.  An event is delivered only while a     *)
(* listener for its type is registered.  last.ret is the callback the       *)
(* handler called (rotate, pan or dolly), or "none".                        *)

\* number of calls and events in one behaviour
MaxEvents == 5

Callbacks == {"rotate", "pan", "dolly"}

InitHandler ==
    /\ mode = "orbit"
    /\ \E i \in {New(Camera)} : now = i.now /\ end = i.end /\ vel = i.vel
    /\ last = Call("new", "none", "none")
    /\ ops = 0
    /\ timing = <<2, 1>>
    /\ tick = 0
    /\ NoFacade

\* one call or event that leaves the handler as h and called callback
Handled(name, arg, h, callback) ==
    /\ ops < MaxEvents /\ ops' = ops + 1
    /\ handler' = h
    /\ last' = Call(name, arg, callback)
    /\ UNCHANGED <<mode, now, end, vel, timing, tick, controls>>

Enable == \E h \in {enable(handler)} : Handled("enable", "none", h, "none")

Disable == \E h \in {disable(handler)} : Handled("disable", "none", h, "none")

\* handler.dollyEnabled = v, and so on
SetFlag == \E f \in {"dollyEnabled", "rotateEnabled", "panEnabled"}, v \in BOOLEAN : \E h \in {[handler EXCEPT ![f] = v]} : Handled(f, v, h, "none")

MouseDown == "mousedown" \in handler.listeners /\ \E button \in {"LEFT", "MIDDLE", "RIGHT"} : Handled("mousedown", button, handleMouseStart(handler, button), "none")

MouseUp == "mouseup" \in handler.listeners /\ Handled("mouseup", "none", handleMouseStop(handler), "none")

MouseLeave == "mouseleave" \in handler.listeners /\ Handled("mouseleave", "none", handleMouseStop(handler), "none")

MouseMove == "mousemove" \in handler.listeners /\ \E r \in {handleMouseMove(handler)} : Handled("mousemove", "none", r[1], r[2])

Wheel == "wheel" \in handler.listeners /\ \E r \in {handleMouseWheel(handler)} : Handled("wheel", "none", r[1], r[2])

TouchStart == "touchstart" \in handler.listeners /\ \E touches \in 1 .. 4 : Handled("touchstart", touches, handleTouchStart(handler, touches), "none")

TouchEnd == "touchend" \in handler.listeners /\ Handled("touchend", "none", handleTouchStop(handler), "none")

TouchCancel == "touchcancel" \in handler.listeners /\ Handled("touchcancel", "none", handleTouchStop(handler), "none")

TouchMove == "touchmove" \in handler.listeners /\ \E r \in {handleTouchMove(handler)} : Handled("touchmove", "none", r[1], r[2])

NextHandler ==
    \/ Enable \/ Disable \/ SetFlag
    \/ MouseDown \/ MouseUp \/ MouseLeave \/ MouseMove \/ Wheel
    \/ TouchStart \/ TouchEnd \/ TouchCancel \/ TouchMove

SpecHandler == InitHandler /\ [][NextHandler]_vars

\* the flag that allows a callback
FlagOf(callback) == CASE callback = "rotate" -> "rotateEnabled" [] callback = "pan" -> "panEnabled" [] OTHER -> "dollyEnabled"

\* C38: the handler starts disabled, listens to nothing while it is disabled,
\* and calls rotate, pan or dolly only in an event that finds it enabled and
\* the flag of that callback set.
C38_CallbacksOnlyWhenEnabled ==
    /\ ~handler.enabled
    /\ [](~handler.enabled => handler.listeners = {})
    /\ [][(ops' = ops + 1 /\ last'.ret \in Callbacks) => (handler.enabled /\ handler[FlagOf(last'.ret)])]_vars

\* rotate called by a mouse move of a drag, with the dolly flag cleared meanwhile
C38_Witness ==
    /\ ops = MaxEvents /\ last.op = "mousemove" /\ last.ret = "rotate"
    /\ handler.enabled /\ ~handler.dollyEnabled

InputEvents == {"mousedown", "mousemove", "wheel", "mouseup", "mouseleave", "touchstart", "touchmove", "touchend", "touchcancel"}

\* the mouse-drag listeners are registered exactly when the action is ROTATE or PAN
DragConsistent(h) == (MouseChangeListeners \subseteq h.listeners) <=> (h.action \in {"ROTATE", "PAN"})

\* C40: every mouse, wheel and touch event keeps the mouse-drag listeners
\* (mouseup, mouseleave, mousemove) registered exactly when the active action
\* is ROTATE or PAN.
C40_DragListenersMatchAction ==
    [][(ops' = ops + 1 /\ last'.op \in InputEvents /\ DragConsistent(handler)) => DragConsistent(handler')]_vars

---------------------------------------------------------------------------
(* OrbitXControls (part_004): the facade around one interpolator.  controls *)
(* is the record [needsUpdate, minDistance, maxDistance, camera,            *)
(* defaultState]; the interpolator is <<now, end, vel>> and mode the active *)
(* mode.  A method is the function from the facade before the call to the   *)
(* record [mode, i, c, ret] after it; ret is the value returned, "none", or *)
(* "throws" when the call raised an Error.                                  *)

\* new CameraSaveState()
CameraSaveState == [orbitCenter |-> Zero3, offset |-> V3(0, 0, ONE), forward |-> V3(0, 0, -ONE), up |-> AXIS.Y]

\* values assigned to minDistance[m]
MinValues == {-ONE, 2 * ONE, 3 * ONE}

\* values assigned to maxDistance[m]
MaxValues == {-ONE, 2 * ONE, Infinity}

Transitions == BOOLEAN

\* the position, orbit center and target the facade is called with
ControlPoints == {V3(0, 0, 9 * ONE)}

\* <<smoothTime[mode], delta>> of a frame
FrameTiming == <<2, 1>>

\* <<qx, qy>> of rotate
RotateDeltas == {<<1, 0>>, <<0, -1>>}

\* the value NaN of a number: a value outside the grid, for which every
\* comparison is false
NaN == -(2 * Infinity)

\* a < b of two numbers
Less(a, b) == a # NaN /\ b # NaN /\ a < b

Done(m, i, c, ret) == [mode |-> m, i |-> i, c |-> c, ret |-> ret]

\* internalUpdate(transition): jumps to the end unless a transition is asked for
Controls_internalUpdate(i_, c, transition) ==
    Only({Done(mode, IF transition THEN i ELSE jumpToEnd(i), [c EXCEPT !.needsUpdate = TRUE], "none") : i \in {i_}})

\* clampDistance(): to the limits of the active mode
Controls_clampDistance(i_, c) == Only({clampDistance(i, <<c.minDistance[mode], c.maxDistance[mode]>>) : i \in {i_}})

\* onEnable(): the interpolator is set from the camera
Controls_onEnable(i_, c) == Only({Controls_internalUpdate(i, c, FALSE) : i \in {setFromObject(i_, c.camera)}})

\* faulty variant of setMode: without the needsUpdate = true of internalUpdate
Controls_setMode_keepsFlag(i_, c, m_) ==
    Only({IF m = mode THEN Done(mode, i, c, "none")
    ELSE Only({Done(m, jumpToEndIn(m, j), c, "none")
    : j \in {loadStateIn(m, getAnimatorFromMode(m, c.camera), saveState(i))}})
    : i \in {i_}, m \in {m_}})

Controls_setMode(i_, c, m_) ==
    Only({IF m = mode THEN Done(mode, i, c, "none")
    ELSE Only({Done(m, jumpToEndIn(m, j), [c EXCEPT !.needsUpdate = TRUE], "none")
    : j \in {loadStateIn(m, getAnimatorFromMode(m, c.camera), saveState(i))}})
    : i \in {i_}, m \in {m_}})

Controls_setCamera(i, c, camera) ==
    Only({Only({Controls_internalUpdate(Controls_clampDistance(j, c1), c1, FALSE) : j \in {setFromObject(i, camera)}})
    : c1 \in {[c EXCEPT !.camera = camera]}})

Controls_setPosition(i, c, position, transition) ==
    Only({Controls_internalUpdate(Controls_clampDistance(j, c), c, transition) : j \in {setPosition(i, position)}})

Controls_setOrbitCenter(i, c, orbitCenter, transition) ==
    Only({Controls_internalUpdate(Controls_clampDistance(j, c), c, transition) : j \in {setOrbitCenter(i, orbitCenter)}})

Controls_lookAt(i, c, target, transition) ==
    Only({Controls_internalUpdate(Controls_clampDistance(j, c), c, transition) : j \in {lookAt(i, target)}})

\* setDefaultState(): the snapshot saveState() returns
Controls_setDefaultState(i, c) == Only({Done(mode, i, [c EXCEPT !.defaultState = state], "none") : state \in {saveState(i)}})

Controls_loadState(i, c, state, transition) == Only({Controls_internalUpdate(j, c, transition) : j \in {loadState(i, state)}})

Controls_resetStateToDefault(i, c, transition) == Controls_loadState(i, c, c.defaultState, transition)

\* faulty variant of the assignment: the value is stored before it is validated
Controls_setMinDistance_storesFirst(i, c, m, v) ==
    IF Less(v, 0) \/ Less(c.maxDistance[m], v) THEN Done(mode, i, [c EXCEPT !.minDistance[m] = v], "throws")
    ELSE IF mode # m THEN Done(mode, i, [c EXCEPT !.minDistance[m] = v], "none")
    ELSE Only({Controls_internalUpdate(Controls_clampDistance(i, c1), c1, FALSE) : c1 \in {[c EXCEPT !.minDistance[m] = v]}})

\* minDistance[m] = v: beforeChange, the assignment, afterChange
Controls_setMinDistance(i, c, m, v) ==
    IF Less(v, 0) \/ Less(c.maxDistance[m], v) THEN Done(mode, i, c, "throws")
    ELSE IF mode # m THEN Done(mode, i, [c EXCEPT !.minDistance[m] = v], "none")
    ELSE Only({Controls_internalUpdate(Controls_clampDistance(i, c1), c1, FALSE) : c1 \in {[c EXCEPT !.minDistance[m] = v]}})

\* maxDistance[m] = v
Controls_setMaxDistance(i, c, m, v) ==
    IF Less(v, 0) \/ Less(v, c.minDistance[m]) THEN Done(mode, i, c, "throws")
    ELSE IF mode # m THEN Done(mode, i, [c EXCEPT !.maxDistance[m] = v], "none")
    ELSE Only({Controls_internalUpdate(Controls_clampDistance(i, c1), c1, FALSE) : c1 \in {[c EXCEPT !.maxDistance[m] = v]}})

\* rotate(deltaX, deltaY): the pointer deltas are drawn as multiples qx, qy of
\* 1 / (2 * rotateSpeed[mode]), so that delta * PI * rotateSpeed[mode] is a
\* whole number of quarter turns
Controls_rotate(i, c, qx, qy) ==
    Only({Only({Done(mode, k, [c EXCEPT !.needsUpdate = TRUE], "none") : k \in {rotateLeft(j, -(qx * HALFPI))}})
    : j \in {rotateUp(i, qy * HALFPI)}})

\* dolly(direction): Math.pow(1 + direction * 0.05, dollySpeed[mode]) lies
\* between 1 and 1 + direction * 0.05; on the grid it is the nearest value on
\* the same side of 1, and minDollyStep (5e-3) is 0
Controls_dolly(i, c, direction) ==
    Only({Done(mode, j, [c EXCEPT !.needsUpdate = TRUE], "none")
    : j \in {dolly(i, <<ONE + direction, 0, c.minDistance[mode], c.maxDistance[mode]>>)}})

\* pan(deltaX, deltaY): px and py are deltaX * panSpeed[mode] and deltaY * panSpeed[mode]
Controls_pan(i, c, px, py) ==
    Only({Only({Done(mode, k, [c EXCEPT !.needsUpdate = TRUE], "none") : k \in {panLeft(j, px)}})
    : j \in {panUp(i, -py)}})

\* update(delta): false and nothing done unless needsUpdate; the camera is
\* written from the now state
Controls_update(i, c, smoothTime, delta) ==
    IF ~c.needsUpdate THEN Done(mode, i, c, FALSE)
    ELSE Only({Only({Done(mode, r.i, [c EXCEPT !.needsUpdate = r.needsUpdate, !.camera = camera], TRUE) : camera \in {ApplyNow(r.i)}})
    : r \in {update(i, smoothTime, delta)}})

\* after the constructor, which ends with enable()
InitControls ==
    /\ mode \in Modes
    /\ \E c \in {[needsUpdate |-> TRUE, minDistance |-> [m \in Modes |-> 0], maxDistance |-> [m \in Modes |-> Infinity], camera |-> Camera, defaultState |-> CameraSaveState]} :
        \E r \in {Controls_onEnable(getAnimatorFromMode(mode, Camera), c)} :
            now = r.i.now /\ end = r.i.end /\ vel = r.i.vel /\ controls = r.c
    /\ handler = enable(InteractionHandler)
    /\ last = Call("new", Camera, "none")
    /\ ops = 0
    /\ timing = FrameTiming
    /\ tick = 0

\* the user code makes at most MaxOps calls
Callable == ops < MaxOps

\* a call of the facade that leaves it as r
Called(name, arg, r) ==
    /\ ops' = ops + 1
    /\ mode' = r.mode /\ now' = r.i.now /\ end' = r.i.end /\ vel' = r.i.vel /\ controls' = r.c
    /\ last' = Call(name, arg, r.ret)
    /\ UNCHANGED <<timing, tick, handler>>

ControlsSetMode == Callable /\ \E m \in Modes : \E r \in {Controls_setMode(Self, controls, m)} : Called("setMode", m, r)

ControlsSetCamera == Callable /\ \E camera \in Objects : \E r \in {Controls_setCamera(Self, controls, camera)} : Called("setCamera", camera, r)

ControlsSetPosition == Callable /\ \E to \in ControlPoints, transition \in Transitions : \E r \in {Controls_setPosition(Self, controls, to, transition)} : Called("setPosition", <<to, transition>>, r)

ControlsSetOrbitCenter == Callable /\ \E to \in ControlPoints, transition \in Transitions : \E r \in {Controls_setOrbitCenter(Self, controls, to, transition)} : Called("setOrbitCenter", <<to, transition>>, r)

ControlsLookAt == Callable /\ \E to \in ControlPoints, transition \in Transitions : \E r \in {Controls_lookAt(Self, controls, to, transition)} : Called("lookAt", <<to, transition>>, r)

ControlsSetDefaultState == Callable /\ \E r \in {Controls_setDefaultState(Self, controls)} : Called("setDefaultState", "none", r)

ControlsLoadState == Callable /\ \E state \in SaveStates, transition \in Transitions : \E r \in {Controls_loadState(Self, controls, state, transition)} : Called("loadState", <<state, transition>>, r)

ControlsResetStateToDefault == Callable /\ \E transition \in Transitions : \E r \in {Controls_resetStateToDefault(Self, controls, transition)} : Called("resetStateToDefault", transition, r)

ControlsSetMinDistance == Callable /\ \E m \in Modes, v \in MinValues : \E r \in {Controls_setMinDistance(Self, controls, m, v)} : Called("minDistance", <<m, v>>, r)

ControlsSetMaxDistance == Callable /\ \E m \in Modes, v \in MaxValues : \E r \in {Controls_setMaxDistance(Self, controls, m, v)} : Called("maxDistance", <<m, v>>, r)

ControlsRotate == Callable /\ \E q \in RotateDeltas : \E r \in {Controls_rotate(Self, controls, q[1], q[2])} : Called("rotate", q, r)

ControlsDolly == Callable /\ \E direction \in {-1, 1} : \E r \in {Controls_dolly(Self, controls, direction)} : Called("dolly", direction, r)

ControlsPan == Callable /\ \E px \in PanDeltas, py \in {0} : \E r \in {Controls_pan(Self, controls, px, py)} : Called("pan", <<px, py>>, r)

\* one frame: update(delta)
ControlsUpdate ==
    \E r \in {Controls_update(Self, controls, timing[1], timing[2])} :
        /\ now' = r.i.now /\ end' = r.i.end /\ vel' = r.i.vel /\ controls' = r.c
        /\ last' = Call("update", timing, r.ret)
        /\ tick' = 1 - tick
        /\ UNCHANGED <<mode, ops, timing, handler>>

NextControls ==
    \/ ControlsSetMode \/ ControlsSetCamera \/ ControlsSetPosition \/ ControlsSetOrbitCenter \/ ControlsLookAt
    \/ ControlsSetDefaultState \/ ControlsLoadState \/ ControlsResetStateToDefault
    \/ ControlsSetMinDistance \/ ControlsSetMaxDistance
    \/ ControlsRotate \/ ControlsDolly \/ ControlsPan
    \/ ControlsUpdate

SpecControls == InitControls /\ [][NextControls]_vars

---------------------------------------------------------------------------
(* The distance limits on their own: the user code only assigns             *)
(* minDistance[m] and maxDistance[m].  NaN is assigned to the limits of the *)
(* modes that are not active, where afterChange returns at once.            *)

LimitsSetMin ==
    Callable /\ \E m \in Modes, v \in MinValues \cup {0, NaN} :
        /\ v = NaN => m # mode
        /\ \E r \in {Controls_setMinDistance(Self, controls, m, v)} : Called("minDistance", <<m, v>>, r)

LimitsSetMax ==
    Callable /\ \E m \in Modes, v \in MaxValues \cup {0, NaN} :
        /\ v = NaN => m # mode
        /\ \E r \in {Controls_setMaxDistance(Self, controls, m, v)} : Called("maxDistance", <<m, v>>, r)

NextLimits == LimitsSetMin \/ LimitsSetMax

SpecLimits == InitControls /\ [][NextLimits]_vars

IsAssignment == ops' = ops + 1 /\ last'.op \in {"minDistance", "maxDistance"}

\* 0 <= min <= max as JavaScript evaluates it
Ordered(min, max) == min # NaN /\ max # NaN /\ 0 <= min /\ min <= max

\* the assignment last.arg = <<m, v>> of the value v to limit[m] is one that is
\* negative or would make minDistance[m] > maxDistance[m]
Rejected(op, m, v) ==
    \/ Less(v, 0)
    \/ op = "minDistance" /\ Less(controls.maxDistance[m], v)
    \/ op = "maxDistance" /\ Less(v, controls.minDistance[m])

\* C36: an assignment to minDistance[m] or maxDistance[m] that is negative or
\* would make minDistance[m] > maxDistance[m] throws and leaves the stored
\* limits unchanged, and after any sequence of assignments
\* 0 <= minDistance[m] <= maxDistance[m] holds for every mode m.
C36_LimitsValidated ==
    /\ [](\A m \in Modes : Ordered(controls.minDistance[m], controls.maxDistance[m]))
    /\ [][(IsAssignment /\ Rejected(last'.op, last'.arg[1], last'.arg[2]))
           => (last'.ret = "throws" /\ controls' = controls /\ SelfNext = Self)]_vars

---------------------------------------------------------------------------
(* The update protocol of the facade.                                       *)

\* the calls that move the camera: rotate, pan, dolly, the setters, loadState
MovingCalls == {"rotate", "pan", "dolly", "setCamera", "setPosition", "setOrbitCenter", "lookAt", "loadState"}

\* update returns false and touches nothing exactly when needsUpdate is false;
\* otherwise needsUpdate becomes what the interpolator's update returns
UpdateStep ==
    /\ (last'.ret = FALSE) <=> ~controls.needsUpdate
    /\ ~controls.needsUpdate => (SelfNext = Self /\ controls' = controls)
    /\ controls.needsUpdate => \E r \in {update(Self, timing[1], timing[2])} : controls'.needsUpdate = r.needsUpdate /\ last'.ret = TRUE

\* C37 as stated: update returns false and touches neither the camera nor the
\* interpolator exactly when needsUpdate is false; every rotate, pan, dolly,
\* setter, loadState and setMode sets needsUpdate; needsUpdate becomes false
\* on the first update in which the interpolator reports convergence and
\* stays false while there is no further input.
C37_UpdateProtocol ==
    [][/\ IsUpdate => UpdateStep
       /\ (ops' = ops + 1 /\ last'.op \in MovingCalls \cup {"setMode"}) => controls'.needsUpdate]_vars

\* C37, amended: as stated, with setMode setting needsUpdate when it is called
\* with a mode other than the active one; setMode with the active mode
\* leaves needsUpdate and everything else as it is.
C37_UpdateProtocolOtherMode ==
    [][/\ IsUpdate => UpdateStep
       /\ (ops' = ops + 1 /\ last'.op \in MovingCalls) => controls'.needsUpdate
       /\ (ops' = ops + 1 /\ last'.op = "setMode" /\ last'.arg # mode) => controls'.needsUpdate
       /\ (ops' = ops + 1 /\ last'.op = "setMode" /\ last'.arg = mode) => (controls' = controls /\ SelfNext = Self /\ mode' = mode)]_vars

\* an update that returned false after a call of the user code: needsUpdate had
\* become false at the convergence of an earlier update
C37_Witness == ops > 0 /\ last.op = "update" /\ last.ret = FALSE /\ ~controls.needsUpdate /\ tick = 1

---------------------------------------------------------------------------
(* The distance limits and the target distance.                             *)

PublicOperations == {"setMode", "loadState", "resetStateToDefault", "setCamera", "setPosition", "setOrbitCenter", "lookAt", "minDistance", "maxDistance", "dolly"}

\* the target distance lies within the limits of the active mode
WithinLimits(m, i, c) == Max(EPSILON, c.minDistance[m]) <= i.end.distance /\ i.end.distance <= c.maxDistance[m]

\* C39: after every public operation of the facade the target distance of the
\* active interpolator lies within
\* [max(EPSILON, minDistance[mode]), maxDistance[mode]] of the active mode.
C39_DistanceWithinLimits ==
    [][(ops' = ops + 1 /\ last'.op \in PublicOperations) => WithinLimits(mode', SelfNext, controls')]_vars

---------------------------------------------------------------------------
(* OrbitXController (camera-controls/OrbitXControls.ts), the earlier facade *)
(* that holds the two states itself: now is its `state`, end its            *)
(* `stateEnd`.  Its states are those of camera-states/IsotropicState.ts     *)
(* (IsotropicState and OrbitState; the GroundedState of this version is not *)
(* among the sources, so the mode is one of the other two).  The controller *)
(* is taken between its construction and the first setCamera: camera is     *)
(* null, internalUpdate does not call update and the controller cannot be   *)
(* enabled.                                                                 *)

CONTROL_MODE == {"isotropic", "orbit"}

\* new IsotropicState(), new OrbitState()
Old_new(m) == IF m = "orbit" THEN OrbitState ELSE IsotropicState

Old_velocity(m) == IF m = "orbit" THEN OrbitVelocity ELSE IsotropicVelocity

\* OrbitState: private set offset; the two statements after "Take shorter way"
\* compute a sum and assign nothing
Old_Orbit_setOffset(s_, to_) ==
    Only({IF approxEqualVec3(Orbit_offset(s), to) THEN s
    ELSE IF approxZeroVec3(to) THEN Orbit_setDistance(s, EPSILON)
    ELSE Only({Only({[s EXCEPT !.distance = Max(EPSILON, radius), !.theta = theta0, !.phi = makeSafe(Acos(clamp(t.y, -radius, radius), radius))]
    : radius \in {Length(t)}, theta0 \in {Atan2(t.x, t.z) + turns * TWOPI}})
    : turns \in {TruncDiv(s.theta, TWOPI)}, t \in {ApplyQuat(to, Orbit_fromUpToY(s))}})
    : s \in {s_}, to \in {to_}})

\* OrbitState.loadState: a zero offset is taken as it is, any other offset is
\* replaced by the negated forward of length EPSILON
Old_Orbit_loadState(s, state_) ==
    Only({Only({Only({Only({Orbit_normalize(s3)
    : s3 \in {Old_Orbit_setOffset(s2, IF approxZeroVec3(state.offset) THEN state.offset ELSE SetLength(VNeg(state.forward), EPSILON))}})
    : s2 \in {Orbit_setUp(s1, state.up)}})
    : s1 \in {[s EXCEPT !.orbitCenter = state.orbitCenter]}})
    : state \in {state_}})

\* IsotropicState.loadState: forward is the negated, normalized offset
Old_Iso_loadState(s, state_) ==
    Only({Only({Only({Only({[orbitCenter |-> state.orbitCenter, distance |-> Max(EPSILON, Length(state.offset)), quaternion |-> SetFromBasis(right, up, VNeg(forward))]
    : up \in {Cross(right, forward)}})
    : right \in {Cross(forward, Direction(state.up))}})
    : forward \in {Direction(VNeg(state.offset))}})
    : state \in {state_}})

Old_loadState(m, s, state) == IF m = "orbit" THEN Old_Orbit_loadState(s, state) ELSE Old_Iso_loadState(s, state)

Old_saveState(m, s) == IF m = "orbit" THEN Orbit_saveState(s) ELSE Iso_saveState(s)

\* the snapshots loadState is called with (offsets other than zero)
OldSnapshots ==
    {CameraSaveState,
     [orbitCenter |-> V3(2 * ONE, 0, 0), offset |-> V3(0, 0, 2 * ONE), forward |-> V3(0, 0, -ONE), up |-> AXIS.Y],
     [orbitCenter |-> Zero3, offset |-> V3(3 * ONE, 0, 0), forward |-> V3(-ONE, 0, 0), up |-> AXIS.Y],
     [orbitCenter |-> V3(0, ONE, 0), offset |-> V3(0, 0, -(2 * ONE)), forward |-> V3(0, 0, ONE), up |-> AXIS.Y]}

\* loadState(state, transition) with internalUpdate: stateEnd.loadState, and
\* state.copy(stateEnd) unless a transition is asked for
OrbitXController_loadState(m, n, e_, state, transition) ==
    Only({[mode |-> m, now |-> IF transition THEN n ELSE e, end |-> e] : e \in {Old_loadState(m, e_, state)}})

\* setStateMode(mode): both snapshots are loaded into the new `state`, one
\* after the other; the new stateEnd is left as constructed
OrbitXController_setStateMode(m, n, e, to) ==
    IF m = to THEN [mode |-> m, now |-> n, end |-> e]
    ELSE Only({Only({[mode |-> to, now |-> Old_loadState(to, Old_loadState(to, Old_new(to), save), saveEnd), end |-> Old_new(to)]
    : saveEnd \in {Old_saveState(m, e)}})
    : save \in {Old_saveState(m, n)}})

\* after new OrbitXController(domElement, stateMode)
InitStateMode ==
    /\ mode \in CONTROL_MODE
    /\ now = Old_new(mode) /\ end = Old_new(mode) /\ vel = Old_velocity(mode)
    /\ controls = [camera |-> "null", needsUpdate |-> FALSE, defaultState |-> CameraSaveState]
    /\ handler = InteractionHandler
    /\ last = Call("new", mode, "none")
    /\ ops = 0
    /\ timing = FrameTiming
    /\ tick = 0

MaxCalls == 3

OldCalled(name, arg, r) ==
    /\ ops' = ops + 1
    /\ mode' = r.mode /\ now' = r.now /\ end' = r.end /\ vel' = Old_velocity(r.mode)
    /\ last' = Call(name, arg, "none")
    /\ UNCHANGED <<timing, tick, handler, controls>>

OldLoadState ==
    ops < MaxCalls /\ \E state \in OldSnapshots, transition \in Transitions :
        \E r \in {OrbitXController_loadState(mode, now, end, state, transition)} : OldCalled("loadState", <<state, transition>>, r)

OldSetStateMode ==
    ops < MaxCalls /\ \E to \in CONTROL_MODE :
        \E r \in {OrbitXController_setStateMode(mode, now, end, to)} : OldCalled("setStateMode", to, r)

NextStateMode == OldLoadState \/ OldSetStateMode

SpecStateMode == InitStateMode /\ [][NextStateMode]_vars

\* C31: on a mode-change request to a different mode the destination's
\* current state is the one loaded from the snapshot of the old current state
\* and, the target snapshot being captured, the destination's target state is
\* the one loaded from the snapshot of the old target state; a request for
\* the active mode changes nothing.
C31_ModeChangeReconstructs ==
    [][(ops' = ops + 1 /\ last'.op = "setStateMode") =>
        IF last'.arg = mode THEN mode' = mode /\ now' = now /\ end' = end
        ELSE /\ mode' = last'.arg
             /\ now' = Old_loadState(mode', Old_new(mode'), Old_saveState(mode, now))
             /\ end' = Old_loadState(mode', Old_new(mode'), Old_saveState(mode, end))]_vars

====
